---- MODULE Spec2Model ----
(***************************************************************************)
(* State-machine model of QVncClient (qvncclient.cpp): the RFB protocol    *)
(* engine of QVncClient::Private driven by the signals of the attached     *)
(* QTcpSocket.  Bytes are integers 0..255; the socket read buffer, the     *)
(* bytes written by the client and the bytes the server still has in       *)
(* flight are sequences of bytes.  A byte of memory that the program keeps *)
(* or copies without ever having written it is Indeterminate.              *)
(***************************************************************************)
EXTENDS Integers, Sequences, FiniteSets, TLC

\* ------------------------------------------------------------------------
\* Bounds of the model
\* ------------------------------------------------------------------------
\* Spec: server messages and transport connects of a run
MaxSegs == 3
MaxConn == 2
\* SpecHost: server messages, transport connects and setSocket calls of a run
HostSegs == 3
HostConn == 2
HostSets == 2
\* SpecUpdate: server messages of a run (three of them are the handshake)
UpdSegs == 5
TightSegs == 7
TightConn == 2
TightSets == 2
HextileSegs == 7
ZRLESegs == 6
InputSegs == 3
DecodeSegs == 4
InputKeys == 2

\* ------------------------------------------------------------------------
\* Enumerations of the source
\* ------------------------------------------------------------------------
\* QVncClient::Private::HandshakingState
ProtocolVersionState == 1553
SecurityState == 1554
SecurityResultState == 1555
ClientInitState == 1585
ServerInitState == 1586
WaitingState == 1600

\* QVncClient::ProtocolVersion
ProtocolVersionUnknown == 0
ProtocolVersion33 == 771
ProtocolVersion37 == 775
ProtocolVersion38 == 776

\* QVncClient::SecurityType : qint8
SecurityTypeUnknwon == -1
SecurityTypeInvalid == 0
SecurityTypeNone == 1
SecurityTypeVncAuthentication == 2

\* QVncClient::Private::ClientMessageType : quint8
SetPixelFormat == 0
SetEncodings == 2
FramebufferUpdateRequest == 3

\* QVncClient::Private::ServerMessageType
FramebufferUpdate == 0

\* QVncClient::Private::EncodingType
RawEncoding == 0
CopyRect == 1
Hextile == 5
Tight == 7
ZRLE == 16

\* the sockets the host owns; nullptr is NoSocket
NoSocket == 0
\* enum HextileSubencoding
RawSubencoding == 1
BackgroundSpecified == 2
ForegroundSpecified == 4
AnySubrects == 8
SubrectsColoured == 16
Sockets == {1, 2}

\* ------------------------------------------------------------------------
\* Wire primitives
\* ------------------------------------------------------------------------
Min(a, b) == IF a < b THEN a ELSE b

Byte == 0..255
\* A byte of memory that was never written, as long as the program only
\* keeps it, copies it or computes a value from it that it keeps: it is one
\* of Byte, whichever the memory held.  A value computed from it is
\* Indeterminate when it depends on that byte.
Indeterminate == -1

Take(s, n) == SubSeq(s, 1, Min(n, Len(s)))
Drop(s, n) == SubSeq(s, Min(n, Len(s)) + 1, Len(s))

\* quint16_be / quint32_be read from the first bytes of b.  A 32-bit word is
\* only evaluated when it is below 2^31 (Fits31); a word with the top bit set
\* is larger than every buffer length and, as a qint32, negative.
ReadU16BE(b) == b[1] * 256 + b[2]
ReadU32BE(b) == ((b[1] * 256 + b[2]) * 256 + b[3]) * 256 + b[4]
Fits31(b) == b[1] < 128
\* bytesAvailable < word
LessThanU32(avail, b) == ~Fits31(b) \/ avail < ReadU32BE(b)
\* word mod 2^31, which has the low bytes of the word
LowBits(b) == ReadU32BE(<<b[1] % 128, b[2], b[3], b[4]>>)
\* quint32_le read from the first bytes of b
ReadU32LE(b) == ((b[4] * 256 + b[3]) * 256 + b[2]) * 256 + b[1]

\* quint16_be(n) / qint32_be(n) as written by write(const T &)
WriteU16BE(n) == << (n \div 256) % 256, n % 256 >>
WriteU32BE(n) == << (n \div 16777216) % 256, (n \div 65536) % 256,
                    (n \div 256) % 256, n % 256 >>

\* static_cast to an enumeration whose underlying type is qint8
ToInt8(n) == LET m == n % 256 IN IF m >= 128 THEN m - 256 ELSE m

\* "RFB 003.003\n" and its siblings as bytes
RFB33 == <<82, 70, 66, 32, 48, 48, 51, 46, 48, 48, 51, 10>>
RFB37 == <<82, 70, 66, 32, 48, 48, 51, 46, 48, 48, 55, 10>>
RFB38 == <<82, 70, 66, 32, 48, 48, 51, 46, 48, 48, 56, 10>>

\* struct PixelFormat is the 16 bytes of the wire record, read and written raw
bitsPerPixel(pf) == pf[1]
bigEndianFlag(pf) == pf[3]
\* a quint16_be member as a number
Max16(b) ==
    IF b[1] = Indeterminate \/ b[2] = Indeterminate THEN Indeterminate
    ELSE ReadU16BE(b)
redMax(pf) == Max16(SubSeq(pf, 5, 6))
greenMax(pf) == Max16(SubSeq(pf, 7, 8))
blueMax(pf) == Max16(SubSeq(pf, 9, 10))
redShift(pf) == pf[11]
greenShift(pf) == pf[12]
blueShift(pf) == pf[13]
\* PixelFormat as the constructor leaves it: redMax, greenMax and blueMax
\* have no initializer and hold the six bytes that their memory held
PixelFormatDefault ==
    <<0, 0, 0, 0>> \o [i \in 1..6 |-> Indeterminate] \o <<0, 0, 0, 0, 0, 0>>

\* ------------------------------------------------------------------------
\* The engine.  An engine value e is the part of QVncClient::Private and of
\* the attached socket that a handler reads and writes:
\*   state, protocolVersion, securityType, pixelFormat, frameBufferWidth,
\*   frameBufferHeight, image (size of the QImage), in (socket read buffer),
\*   out (bytes written to the socket), valid (isValid()), emitted (signals
\*   emitted by the running handler, in order), pc (where the handler is
\*   suspended in waitForReadyRead, or "idle"), shiftModulo and lengthIs
\*   (what the run makes of a shift by 32 or more and of a length of
\*   unwritten bytes), undefined (whether the handler has shifted so:
\*   "shift") and lengths (the lengths that a length of unwritten bytes it
\*   has come to can be)
\* ------------------------------------------------------------------------
Idle == [at |-> "idle"]

\* emit sig(args) times times in a row; the handlers of the host return at
\* once
EmitTimes(e, sig, args, times) ==
    IF times = 0 THEN e
    ELSE [e EXCEPT !.emitted =
              Append(@, [sig |-> sig, args |-> args, times |-> times])]

Emit(e, sig, args) == EmitTimes(e, sig, args, 1)

\* bool isValid() const
isValid(e) == e.valid

\* template<class T> void write(const T &out), write(const char *)
write(e, bytes) == IF isValid(e) THEN [e EXCEPT !.out = @ \o bytes] ELSE e

\* socket->write(...) called directly: QAbstractSocket::writeData refuses
\* data on an unconnected socket
socketWrite(e, bytes) == IF e.valid THEN [e EXCEPT !.out = @ \o bytes] ELSE e

\* socket->read(n), socket->read(data, n): removes up to n bytes from the
\* read buffer, connected or not
socketRead(e, n) == [e EXCEPT !.in = Drop(@, n)]

\* Memory that a handler reads without its having been written: a local
\* declared without an initializer that a read does not fill, the bytes
\* behind the end of a buffer that a decoder takes pixels from.  Every such
\* byte is any byte, whatever the others are: Indeterminate stands for it.
\* What the handler makes of such bytes is worked out for all their values
\* at once (LengthOf and Narrow for the length of Tight data, EitherRgb for
\* the tiles of Hextile, ToRgb for colours).
\* the first k bytes of the read buffer stored over the first bytes of old
Store(e, old, k) ==
    [e |-> socketRead(e, k), v |-> Take(e.in, k) \o Drop(old, k)]

\* read(&v) where v holds the bytes old: the engine and v afterwards
ReadInto(e, old) ==
    Store(e, old, IF isValid(e) THEN Min(Len(old), Len(e.in)) ELSE 0)

\* socket->read(reinterpret_cast<char *>(&v), sizeof v) where v holds old
socketReadInto(e, old) == Store(e, old, Min(Len(old), Len(e.in)))

\* k bytes of the read buffer stored in a v of n bytes declared without an
\* initializer: the engine and v, whose other bytes were never written
StoreBytes(e, n, k) ==
    [e |-> socketRead(e, k),
     v |-> Take(e.in, k) \o [i \in 1..(n - k) |-> Indeterminate]]

\* read(&v) for a v of n bytes declared without an initializer
ReadBytes(e, n) ==
    StoreBytes(e, n, IF isValid(e) THEN Min(n, Len(e.in)) ELSE 0)

\* socket->read(reinterpret_cast<char *>(&v), n) for such a v
socketReadBytes(e, n) == StoreBytes(e, n, Min(n, Len(e.in)))

bytesAvailable(e) == Len(e.in)

\* void QVncClient::Private::clientInit()
clientInit(e) == [write(e, <<1>>) EXCEPT !.state = ServerInitState]

\* void QVncClient::Private::parseSecurityReason()
parseSecurityReason(e) ==
    IF bytesAvailable(e) < 4 THEN e
    ELSE LET reasonLength == ReadBytes(e, 4)
             e1 == reasonLength.e
         IN IF LessThanU32(bytesAvailable(e1), reasonLength.v) THEN e1
            ELSE socketRead(e1, ReadU32BE(reasonLength.v))

\* variant: security type None is selected as RFB 3.8 has it, whatever the
\* version
securityTypeChangedSelects(e, securityType) ==
    CASE securityType = SecurityTypeUnknwon -> e
      [] securityType = SecurityTypeInvalid -> parseSecurityReason(e)
      [] securityType = SecurityTypeNone ->
           [write(e, <<securityType>>) EXCEPT !.state = SecurityResultState]
      [] OTHER -> e

\* void QVncClient::Private::securityTypeChanged(SecurityType)
securityTypeChanged(e, securityType) ==
    CASE securityType = SecurityTypeUnknwon -> e
      [] securityType = SecurityTypeInvalid -> parseSecurityReason(e)
      [] securityType = SecurityTypeNone ->
           CASE e.protocolVersion = ProtocolVersion33 ->
                  clientInit([e EXCEPT !.state = ClientInitState])
             [] e.protocolVersion = ProtocolVersion37 ->
                  clientInit(write([e EXCEPT !.state = ClientInitState],
                                   <<securityType>>))
             [] e.protocolVersion = ProtocolVersion38 ->
                  [write(e, <<securityType>>) EXCEPT !.state = SecurityResultState]
             [] OTHER -> e
      [] OTHER -> e

\* void QVncClient::setSecurityType(SecurityType)
setSecurityType(e, securityType) ==
    IF e.securityType = securityType THEN e
    ELSE securityTypeChanged(
             Emit([e EXCEPT !.securityType = securityType],
                  "securityTypeChanged", <<securityType>>),
             securityType)

\* void QVncClient::Private::protocolVersionChanged(ProtocolVersion)
protocolVersionChanged(e, protocolVersion) ==
    CASE protocolVersion = ProtocolVersion33 ->
           [socketWrite(e, RFB33) EXCEPT !.state = SecurityState]
      [] protocolVersion = ProtocolVersion37 ->
           [socketWrite(e, RFB37) EXCEPT !.state = SecurityState]
      [] protocolVersion = ProtocolVersion38 ->
           [socketWrite(e, RFB38) EXCEPT !.state = SecurityState]
      [] OTHER -> e

\* void QVncClient::setProtocolVersion(ProtocolVersion)
setProtocolVersion(e, protocolVersion) ==
    IF e.protocolVersion = protocolVersion THEN e
    ELSE protocolVersionChanged(
             Emit([e EXCEPT !.protocolVersion = protocolVersion],
                  "protocolVersionChanged", <<protocolVersion>>),
             protocolVersion)

\* variant: the client echoes the version the server offered
SelectVersionOffered(value) ==
    CASE value = RFB33 -> ProtocolVersion33
      [] value = RFB37 -> ProtocolVersion37
      [] value = RFB38 -> ProtocolVersion38
      [] OTHER -> ProtocolVersionUnknown

\* the version the client selects for a 12-byte version string, or
\* ProtocolVersionUnknown when the string is not recognised
SelectVersion(value) ==
    CASE value = RFB33 -> ProtocolVersion33
      [] value = RFB37 -> ProtocolVersion33
      [] value = RFB38 -> ProtocolVersion33
      [] OTHER -> ProtocolVersionUnknown

\* void QVncClient::Private::parseProtocolVersion()
parseProtocolVersion(e) ==
    IF bytesAvailable(e) < 12 THEN e
    ELSE LET value == Take(e.in, 12)
             e1 == socketRead(e, 12)
         IN IF SelectVersion(value) # ProtocolVersionUnknown
            THEN setProtocolVersion(e1, SelectVersion(value))
            ELSE e1

\* void QVncClient::Private::parseSecurity33()
parseSecurity33(e) ==
    IF bytesAvailable(e) < 4 THEN e
    ELSE LET data == ReadBytes(e, 4)
         IN setSecurityType(data.e, ToInt8(LowBits(data.v)))

\* void QVncClient::Private::parseSecurity37()
parseSecurity37(e) ==
    IF bytesAvailable(e) < 1 THEN e
    ELSE LET n == ReadInto(e, <<0>>)
             numberOfSecurityTypes == n.v[1]
             e1 == n.e
         IN IF numberOfSecurityTypes = 0 THEN parseSecurityReason(e1)
            ELSE IF bytesAvailable(e1) < numberOfSecurityTypes THEN e1
            ELSE LET t == ReadInto(e1, [i \in 1..numberOfSecurityTypes |-> 0])
                     securityTypes == t.v
                     e2 == t.e
                 IN IF \E i \in 1..Len(securityTypes) :
                           securityTypes[i] = SecurityTypeNone
                    THEN setSecurityType(e2, SecurityTypeNone)
                    ELSE setSecurityType(e2, SecurityTypeInvalid)

\* void QVncClient::Private::parseSecurity()
parseSecurity(e) ==
    CASE e.protocolVersion = ProtocolVersion33 -> parseSecurity33(e)
      [] e.protocolVersion \in {ProtocolVersion37, ProtocolVersion38} ->
           parseSecurity37(e)
      [] OTHER -> e

\* void QVncClient::Private::setPixelFormat()
setPixelFormat(e) ==
    write(write(write(e, <<SetPixelFormat>>), <<32, 32, 32>>), e.pixelFormat)

\* void QVncClient::Private::setEncodings(const QList<qint32> &)
RECURSIVE WriteEncodings(_, _)
WriteEncodings(e, encodings) ==
    IF encodings = <<>> THEN e
    ELSE WriteEncodings(write(e, WriteU32BE(Head(encodings))), Tail(encodings))

setEncodings(e, encodings) ==
    WriteEncodings(
        write(write(write(e, <<SetEncodings>>), <<32>>),
              WriteU16BE(Len(encodings))),
        encodings)

\* void QVncClient::Private::framebufferUpdateRequest(bool, const QRect &)
\* called with the default (empty) rect: the whole framebuffer
framebufferUpdateRequest(e, incremental) ==
    write(write(write(e, <<FramebufferUpdateRequest>>),
                <<IF incremental THEN 1 ELSE 0>>),
          WriteU16BE(0) \o WriteU16BE(0)
            \o WriteU16BE(e.frameBufferWidth % 65536)
            \o WriteU16BE(e.frameBufferHeight % 65536))

\* the size of QImage(width, height, format): a QImage without pixels is
\* the null image, of size 0 x 0
QImageSize(width, height) ==
    IF width > 0 /\ height > 0 THEN [w |-> width, h |-> height]
    ELSE [w |-> 0, h |-> 0]

\* void QVncClient::Private::parserServerInit()
parserServerInit(e) ==
    IF bytesAvailable(e) < 2 + 2 + 16 + 4 THEN e
    ELSE LET w == ReadBytes(e, 2)
             h == ReadBytes(w.e, 2)
             framebufferWidth == ReadU16BE(w.v)
             framebufferHeight == ReadU16BE(h.v)
             e1 == Emit([h.e EXCEPT
                            !.frameBufferWidth = framebufferWidth,
                            !.frameBufferHeight = framebufferHeight],
                        "framebufferSizeChanged",
                        <<framebufferWidth, framebufferHeight,
                          e.image.w, e.image.h>>)
             e2 == [e1 EXCEPT !.image = QImageSize(framebufferWidth,
                                                   framebufferHeight),
                              !.pixels = <<>>]
             pf == ReadInto(e2, e2.pixelFormat)
             e3 == [pf.e EXCEPT !.pixelFormat = pf.v]
             n == ReadBytes(e3, 4)
             nameLength == n.v
             e4 == n.e
         IN IF LessThanU32(bytesAvailable(e4), nameLength) THEN e4
            ELSE framebufferUpdateRequest(
                     setEncodings(
                         setPixelFormat(
                             [socketRead(e4, ReadU32BE(nameLength)) EXCEPT
                                 !.state = WaitingState]),
                         <<Tight, ZRLE, Hextile, RawEncoding>>),
                     FALSE)

\* the imageChanged(rect) signal
EmitImageChanged(e, rect) ==
    Emit(e, "imageChanged", <<rect.x, rect.y, rect.w, rect.h>>)

\* imageChanged(rect) emitted times times in a row
EmitImageChangedTimes(e, rect, times) ==
    EmitTimes(e, "imageChanged", <<rect.x, rect.y, rect.w, rect.h>>, times)

\* (color >> shift) & max on a 32-bit colour given as its four bytes, low
\* byte first; max is a 16-bit field of the pixel format
\* A bit is 0, 1 or, as a bit of an Indeterminate byte, Indeterminate.
Pow2(n) == 2 ^ n
BitOf(n, j) == IF n = Indeterminate THEN Indeterminate ELSE (n \div Pow2(j)) % 2
ColorBit(color, j) == IF j < 32 THEN BitOf(color[(j \div 8) + 1], j % 8) ELSE 0
\* a & b on bits
BitAnd(a, b) ==
    IF a = 0 \/ b = 0 THEN 0
    ELSE IF a = 1 /\ b = 1 THEN 1
    ELSE Indeterminate
\* the number of the n low bits of bits, Indeterminate when one of them is
RECURSIVE BitsValue(_, _)
BitsValue(bits, n) ==
    IF n = 0 THEN 0
    ELSE BitsValue(bits, n - 1) + Pow2(n - 1) * bits[n - 1]
LowBitsOf(bits, n) ==
    IF \E i \in 0..(n - 1) : bits[i] = Indeterminate THEN Indeterminate
    ELSE BitsValue(bits, n)
\* A shift by 32 or more is undefined in C++.  What the build does is what
\* its shift instruction does with the count: it takes it modulo
\* shiftModulo = 32 (x86, AArch64), or modulo shiftModulo = 256 and shifts
\* every bit out when that is 32 or more (ARM)
ShiftMaskBits(color, shift, max, shiftModulo) ==
    [i \in 0..15 |->
        IF shift % shiftModulo < 32
        THEN BitAnd(BitOf(max, i), ColorBit(color, (shift % shiftModulo) + i))
        ELSE 0]
ShiftMask(color, shift, max, shiftModulo) ==
    LowBitsOf(ShiftMaskBits(color, shift, max, shiftModulo), 16)

\* qRgb(r, g, b), which keeps the low eight bits of r, g and b, of the three
\* channels of colour color under the pixel format of e, as <<red, green,
\* blue>>
ToRgb(e, color) ==
    LET pf == e.pixelFormat
        shift == <<redShift(pf), greenShift(pf), blueShift(pf)>>
        max == <<redMax(pf), greenMax(pf), blueMax(pf)>>
    IN [c \in 1..3 |->
           LowBitsOf(ShiftMaskBits(color, shift[c], max[c], e.shiftModulo), 8)]

\* image.setPixel for every pixel (X + x, Y + y) with x < w and y < h, the
\* colour of pixel (x, y) being ColorAt(x, y); QImage::setPixel ignores
\* coordinates outside the image
SetPixels(e, X, Y, w, h, colorAt) ==
    LET new == {p \in (0..(e.image.w - 1)) \X (0..(e.image.h - 1)) :
                   /\ X <= p[1] /\ p[1] < X + w
                   /\ Y <= p[2] /\ p[2] < Y + h
                   /\ <<p[1] - X, p[2] - Y>> \in DOMAIN colorAt}
        pf == e.pixelFormat
    IN IF new = {} THEN e
       ELSE [e EXCEPT !.pixels =
                [p \in (DOMAIN @) \cup new |->
                    IF p \in new THEN ToRgb(e,
                                            colorAt[p[1] - X, p[2] - Y])
                    ELSE @[p]],
                      !.undefined =
                IF redShift(pf) >= 32 \/ greenShift(pf) >= 32
                      \/ blueShift(pf) >= 32
                THEN @ \cup {"shift"} ELSE @]

\* image.setPixel for the pixels (X + x, Y + y), x < w and y < h, that rgbAt
\* has a <<red, green, blue>> for
SetRgb(e, X, Y, w, h, rgbAt) ==
    LET new == {p \in (0..(e.image.w - 1)) \X (0..(e.image.h - 1)) :
                   /\ X <= p[1] /\ p[1] < X + w
                   /\ Y <= p[2] /\ p[2] < Y + h
                   /\ <<p[1] - X, p[2] - Y>> \in DOMAIN rgbAt}
        pf == e.pixelFormat
    IN IF new = {} THEN e
       ELSE [e EXCEPT !.pixels =
                [p \in (DOMAIN @) \cup new |->
                    IF p \in new THEN rgbAt[<<p[1] - X, p[2] - Y>>]
                    ELSE @[p]],
                      !.undefined =
                IF redShift(pf) >= 32 \/ greenShift(pf) >= 32
                      \/ blueShift(pf) >= 32
                THEN @ \cup {"shift"} ELSE @]

\* a colour of which no byte was ever written
AnyColor == <<Indeterminate, Indeterminate, Indeterminate, Indeterminate>>

\* the pixel that is one of the pixels rgbs, whichever: a channel is what
\* they all have there, and any byte when they differ
EitherRgb(rgbs) ==
    LET p0 == CHOOSE p \in rgbs : TRUE
    IN [c \in 1..3 |-> IF \A p \in rgbs : p[c] = p0[c] THEN p0[c]
                       ELSE Indeterminate]

\* a * b * c in int for 0 <= a, b < 2^16 and 0 <= c < 2^8.  A product
\* beyond the int is undefined in C++; the multiplication of the build
\* keeps the low 32 bits, read as a signed number
Int32Product(a, b, c) ==
    LET p0 == (a % 256) * b
        p1 == (a \div 256) * b
        t == (p1 % 256) * 256 + (p0 % 65536)
        hi == (p1 \div 256) + (p0 \div 65536) + (t \div 65536)
        lo == (t % 65536) * c
        hi2 == (hi * c + (lo \div 65536)) % 65536
    IN IF hi2 >= 32768 THEN (hi2 - 65536) * 65536 + (lo % 65536)
       ELSE hi2 * 65536 + (lo % 65536)

\* the byte count handleRawEncoding() waits for: rect.w * rect.h *
\* pixelFormat.bitsPerPixel / 8 in int
RawBytes(e, rect) ==
    LET p == Int32Product(rect.w, rect.h, bitsPerPixel(e.pixelFormat))
    IN IF p >= 0 THEN p \div 8 ELSE (p + 7) \div 8

\* handleRawEncoding(): the bytes the w * h calls of read(&color) take from
\* the read buffer
RawRead(e, rect) ==
    IF ~isValid(e) THEN 0
    ELSE IF rect.w = 0 \/ (Len(e.in) \div 4) \div rect.w >= rect.h
    THEN rect.w * rect.h * 4
    ELSE Len(e.in)

\* handleRawEncoding(): the colour of pixel number n, the bytes read(&color)
\* stores in color and, where the read buffer ends, what color held, which
\* was never written
RawColor(e, rect, n) ==
    [k \in 1..4 |-> IF 4 * n + k <= RawRead(e, rect) THEN e.in[4 * n + k]
                    ELSE Indeterminate]

\* void QVncClient::Private::handleRawEncoding(const Rectangle &), once the
\* wait loop has ended: the pixel loops, the imageChanged of every row and
\* the update request
handleRawEncoding(e, rect) ==
    IF rect.w > 0 /\ rect.h > 0 /\ bitsPerPixel(e.pixelFormat) # 32 THEN e
    ELSE LET e1 == socketRead(e, RawRead(e, rect))
         IN framebufferUpdateRequest(
                EmitImageChangedTimes(
                    SetPixels(e1, rect.x, rect.y, rect.w, rect.h,
                              [x \in 0..(rect.w - 1), y \in 0..(rect.h - 1) |->
                                  RawColor(e, rect, y * rect.w + x)]),
                    rect, rect.h),
                TRUE)

\* void QVncClient::Private::handleRawEncoding(const Rectangle &) at the
\* head of its wait loop: suspended in waitForReadyRead (pc.at = "raw") or,
\* the socket being unconnected, in a loop that never ends (pc.at = "hung")
RawWait(e, rect) ==
    IF bytesAvailable(e) >= RawBytes(e, rect) THEN handleRawEncoding(e, rect)
    ELSE IF isValid(e) THEN [e EXCEPT !.pc = [at |-> "raw", rect |-> rect]]
    ELSE [e EXCEPT !.pc = [at |-> "hung"]]

\* ------------------------------------------------------------------------
\* zlib, as far as the Tight decoder drives it: inflate() on a zlib stream
\* of stored blocks.  A z_stream is its decoding mode, the bytes held for
\* the field it is reading, the bytes left of the stored block, the
\* last-block flag and the running Adler-32 (a, b) of the output.
\* ------------------------------------------------------------------------
\* inflateInit(&strm)
inflateInit ==
    [mode |-> "HEAD", hold |-> <<>>, length |-> 0, last |-> FALSE,
     a |-> 1, b |-> 0]

\* the bytes the field read in mode z.mode is made of
NeedBytes(z) ==
    CASE z.mode = "HEAD" -> 2
      [] z.mode = "DICTID" -> 4
      [] z.mode = "TYPE" -> IF z.last THEN 0 ELSE 1
      [] z.mode = "STORED" -> 4
      [] z.mode = "CHECK" -> 4
      [] OTHER -> 0

RECURSIVE Adler32(_, _)
Adler32(z, bytes) ==
    IF bytes = <<>> THEN z
    ELSE LET a1 == (z.a + Head(bytes)) % 65521
         IN Adler32([z EXCEPT !.a = a1, !.b = (z.b + a1) % 65521], Tail(bytes))

Min3(a, b, c) ==
    IF a <= b /\ a <= c THEN a ELSE IF b <= c THEN b ELSE c

\* the decoding loop of inflate(): stream z, input in, output out so far,
\* left bytes of room in the output buffer
RECURSIVE inflateLoop(_, _, _, _)
inflateLoop(z, in, out, left) ==
    IF Len(z.hold) < NeedBytes(z)
    THEN IF in = <<>> THEN [z |-> z, in |-> in, out |-> out, ret |-> "Z_OK"]
         ELSE inflateLoop([z EXCEPT !.hold = Append(@, Head(in))], Tail(in),
                          out, left)
    ELSE LET h == z.hold
             z0 == [z EXCEPT !.hold = <<>>]
         IN CASE z.mode = "HEAD" ->
                   IF \/ (h[1] * 256 + h[2]) % 31 # 0
                      \/ h[1] % 16 # 8
                      \/ (h[1] \div 16) + 8 > 15
                   THEN inflateLoop([z0 EXCEPT !.mode = "BAD"], in, out, left)
                   ELSE inflateLoop(
                            [z0 EXCEPT !.mode = IF (h[2] \div 32) % 2 = 1
                                                THEN "DICTID" ELSE "TYPE"],
                            in, out, left)
              [] z.mode = "DICTID" ->
                   inflateLoop([z0 EXCEPT !.mode = "DICT"], in, out, left)
              [] z.mode = "DICT" ->
                   [z |-> z, in |-> in, out |-> out, ret |-> "Z_NEED_DICT"]
              [] z.mode = "TYPE" /\ z.last ->
                   inflateLoop([z0 EXCEPT !.mode = "CHECK"], in, out, left)
              [] z.mode = "TYPE" /\ ~z.last /\ (h[1] \div 2) % 4 = 0 ->
                   inflateLoop([z0 EXCEPT !.mode = "STORED",
                                          !.last = h[1] % 2 = 1],
                               in, out, left)
              [] z.mode = "TYPE" /\ ~z.last /\ (h[1] \div 2) % 4 = 3 ->
                   inflateLoop([z0 EXCEPT !.mode = "BAD",
                                          !.last = h[1] % 2 = 1],
                               in, out, left)
              [] z.mode = "STORED" ->
                   IF h[1] + h[3] = 255 /\ h[2] + h[4] = 255
                   THEN inflateLoop([z0 EXCEPT !.mode = "COPY",
                                               !.length = h[1] + 256 * h[2]],
                                    in, out, left)
                   ELSE inflateLoop([z0 EXCEPT !.mode = "BAD"], in, out, left)
              [] z.mode = "COPY" /\ z.length = 0 ->
                   inflateLoop([z EXCEPT !.mode = "TYPE"], in, out, left)
              [] z.mode = "COPY" /\ z.length > 0 ->
                   LET copy == Min3(z.length, Len(in), left)
                   IN IF copy = 0
                      THEN [z |-> z, in |-> in, out |-> out, ret |-> "Z_OK"]
                      ELSE inflateLoop(
                               [Adler32(z, Take(in, copy)) EXCEPT
                                   !.length = @ - copy],
                               Drop(in, copy), out \o Take(in, copy),
                               left - copy)
              [] z.mode = "CHECK" ->
                   IF h = <<z.b \div 256, z.b % 256, z.a \div 256, z.a % 256>>
                   THEN inflateLoop([z0 EXCEPT !.mode = "DONE"], in, out, left)
                   ELSE inflateLoop([z0 EXCEPT !.mode = "BAD"], in, out, left)
              [] z.mode = "DONE" ->
                   [z |-> z, in |-> in, out |-> out, ret |-> "Z_STREAM_END"]
              [] z.mode = "BAD" ->
                   [z |-> z, in |-> in, out |-> out, ret |-> "Z_DATA_ERROR"]

\* inflate(&strm, Z_SYNC_FLUSH) with next_in = data and avail_out bytes of
\* room
inflate(z, data, avail_out) ==
    LET r == inflateLoop(z, data, <<>>, avail_out)
    IN IF r.ret = "Z_OK" /\ Len(r.in) = Len(data) /\ r.out = <<>>
       THEN [r EXCEPT !.ret = "Z_BUF_ERROR"]
       ELSE r

\* TightData::TightData()
StreamIds == 0..3
TightDataInit ==
    [k \in StreamIds |-> [active |-> FALSE, z |-> inflateInit]]

\* QByteArray QVncClient::Private::decompressTightData(int, const
\* QByteArray &, int): the stream after the call and the bytes returned
decompressTightData(tightData, streamId, data, expectedBytes) ==
    LET r == inflate(tightData[streamId].z, data,
                     IF expectedBytes < 0 THEN 0 ELSE expectedBytes)
    IN [tightData |-> [tightData EXCEPT ![streamId].z = r.z],
        out |-> IF r.ret \notin {"Z_OK", "Z_STREAM_END"} THEN <<>> ELSE r.out]

\* a JPEG file: quantization table, frame header of a grayscale image of
\* 2 x 2, two Huffman tables, one scan
JpegGray2x2 ==
    <<255, 216, 255, 219, 0, 67, 0>> \o [i \in 1..64 |-> 255]
      \o <<255, 192, 0, 11, 8, 0, 2, 0, 2, 1, 1, 17, 0>>
      \o <<255, 196, 0, 20, 0, 1>> \o [i \in 1..15 |-> 0] \o <<3>>
      \o <<255, 196, 0, 20, 16, 1>> \o [i \in 1..15 |-> 0] \o <<0>>
      \o <<255, 218, 0, 8, 1, 1, 0, 0, 63, 0, 55, 255, 217>>

\* QImage::loadFromData(jpegData, "JPEG"): the size and the pixels libjpeg
\* decodes; the null image for data without the start-of-image marker
loadFromData(jpegData) ==
    CASE Len(jpegData) < 2 \/ SubSeq(jpegData, 1, 2) # <<255, 216>> ->
           [w |-> 0, h |-> 0, rgb |-> <<>>]
      [] jpegData = JpegGray2x2 ->
           [w |-> 2, h |-> 2, rgb |-> [x \in 0..1, y \in 0..1 |-> <<1, 1, 1>>]]

\* QPainter(&image).drawImage(X, Y, img)
drawImage(e, X, Y, img) ==
    LET new == {p \in (0..(e.image.w - 1)) \X (0..(e.image.h - 1)) :
                   <<p[1] - X, p[2] - Y>> \in DOMAIN img.rgb}
    IN IF new = {} THEN e
       ELSE [e EXCEPT !.pixels =
                [p \in (DOMAIN @) \cup new |->
                    IF p \in new THEN img.rgb[p[1] - X, p[2] - Y] ELSE @[p]]]

\* A handler at `if (socket->bytesAvailable() < need) socket->waitForReadyRead()`.
\* woke says how it comes there: "enter" from the code before, "ready" out
\* of a wait that returned true, "timeout" out of one that returned false.
\* It goes on without waiting ("go"), is suspended in the wait ("suspend")
\* or, the socket being unconnected, gets false at once ("timeout").
WaitOutcome(e, need, woke) ==
    IF woke # "enter" THEN woke
    ELSE IF bytesAvailable(e) >= need THEN "go"
    ELSE IF isValid(e) THEN "suspend"
    ELSE "timeout"

\* The length that the length bytes bytes, the first of them the high one,
\* make.  Those that were never written are the last of them: the length
\* is any number from lo, all of them 0, to hi, all of them 255.
RECURSIVE BytesValue(_, _)
BytesValue(bytes, unwritten) ==
    IF bytes = <<>> THEN 0
    ELSE BytesValue(SubSeq(bytes, 1, Len(bytes) - 1), unwritten) * 256
           + (IF bytes[Len(bytes)] = Indeterminate THEN unwritten
              ELSE bytes[Len(bytes)])
LengthOf(bytes) ==
    [lo |-> BytesValue(bytes, 0), hi |-> BytesValue(bytes, 255)]

\* The read loop of length bytes of data comes to its head with reach bytes
\* read or in the read buffer.  Of a length that is any of length.lo to
\* length.hi it is here that it matters which it is: every length up to
\* reach ends the loop with that many bytes, every longer one has the loop
\* read all there is and wait.  e.lengthIs says which; e.lengths keeps the
\* lengths that make a difference, hi standing for the longer ones.
Narrow(e, length, reach) ==
    IF length.lo = length.hi \/ length.lo > reach
    THEN [e |-> e, length |-> length]
    ELSE LET is == IF e.lengthIs < length.lo THEN length.lo
                   ELSE IF e.lengthIs > length.hi THEN length.hi
                   ELSE e.lengthIs
         IN [e |-> [e EXCEPT !.lengths =
                       (length.lo)..Min(length.hi, reach)
                          \cup (IF length.hi > reach THEN {length.hi} ELSE {})],
             length |-> IF is <= reach THEN [lo |-> is, hi |-> is]
                        ELSE [lo |-> reach + 1, hi |-> length.hi]]

\* handleTightEncoding() suspended in the waitForReadyRead of stage stage
\* with the locals l
TightSuspended(e, rect, stage, l) ==
    [e EXCEPT !.pc = [at |-> "tight", stage |-> stage, rect |-> rect, l |-> l]]

\* bool QVncClient::Private::handleTightJpeg(const Rectangle &, int) from
\* the head of its read loop on, jpegData being the bytes read so far and
\* length the dataLength, any of length.lo to length.hi: the engine and the
\* value returned, or the engine suspended in the wait
RECURSIVE handleTightJpeg(_, _, _, _, _)
handleTightJpeg(e0, rect, length, jpegData, woke) ==
    LET nw == Narrow(e0, length, Len(jpegData) + bytesAvailable(e0))
        e == nw.e
        dataLength == nw.length
    IN IF Len(jpegData) >= dataLength.lo
       THEN LET jpegImage == loadFromData(jpegData)
            IN IF jpegImage.w = 0 THEN [e |-> e, ok |-> FALSE]
               ELSE [e |-> drawImage(e, rect.x, rect.y, jpegImage),
                     ok |-> TRUE]
       ELSE IF WaitOutcome(e, 1, woke) = "suspend"
       THEN [e |-> TightSuspended(e, rect, "jpegData",
                                  [dataLength |-> dataLength,
                                   data |-> jpegData]),
             ok |-> FALSE]
       ELSE LET bytesRead == Min(bytesAvailable(e),
                                 dataLength.lo - Len(jpegData))
            IN IF bytesRead <= 0 THEN [e |-> e, ok |-> FALSE]
               ELSE handleTightJpeg(socketRead(e, bytesRead), rect,
                                    dataLength,
                                    jpegData \o Take(e.in, bytesRead),
                                    "enter")

\* uncompressedData.constData()[i - 1] as a byte of a colour: the bytes
\* out of the array, the zero that QByteArray keeps behind them, and then
\* what was never written
constData(e, out, i) ==
    IF i <= Len(out) THEN out[i]
    ELSE IF i = Len(out) + 1 THEN 0
    ELSE Indeterminate

\* handleTightEncoding(): the colour of pixel number n of the data
TightColor(e, out, n) ==
    LET bytes == bitsPerPixel(e.pixelFormat) \div 8
        at(k) == constData(e, out, n * bytes + k)
    IN CASE bitsPerPixel(e.pixelFormat) = 32 -> <<at(1), at(2), at(3), at(4)>>
         [] bitsPerPixel(e.pixelFormat) = 24 -> <<at(1), at(2), at(3), 0>>
         [] bitsPerPixel(e.pixelFormat) = 16 -> <<at(1), at(2), 0, 0>>
         [] bitsPerPixel(e.pixelFormat) = 8 -> <<at(1), 0, 0, 0>>
         [] OTHER -> <<0, 0, 0, 0>>

\* void QVncClient::Private::handleTightEncoding(const Rectangle &) from
\* stage stage on, with the locals l:
\*   "control"      the compression control byte
\*   "jpegLength"   the first length byte of JPEG data
\*   "jpegLength2"  the two other length bytes of JPEG data
\*   "jpegData"     the read loop of handleTightJpeg()
\*   "length"       the one or three length bytes of zlib data
\*   "data"         the read loop of the zlib data
\* The length bytes are locals without an initializer, read without a look
\* at what read() returns: out of a wait that has returned false the
\* length is made of the bytes that were there and of unwritten ones.
RECURSIVE TightFrom(_, _, _, _, _)
TightFrom(e, rect, stage, l, woke) ==
    CASE stage = "control" -> (
           LET w == WaitOutcome(e, 1, woke)
               c == socketReadInto(e, <<0>>)
               compControl == c.v[1]
               resetStream == compControl >= 128
               streamId == compControl % 4
               t1 == IF resetStream /\ e.tightData[streamId].active
                     THEN [e.tightData EXCEPT ![streamId].active = FALSE]
                     ELSE e.tightData
               t2 == IF ~t1[streamId].active
                     THEN [t1 EXCEPT ![streamId] =
                              [active |-> TRUE, z |-> inflateInit]]
                     ELSE t1
           IN CASE w = "suspend" -> TightSuspended(e, rect, stage, l)
                [] w = "timeout" -> framebufferUpdateRequest(e, TRUE)
                [] w \in {"go", "ready"} /\ compControl % 16 = 9 ->
                     TightFrom(c.e, rect, "jpegLength", l, "enter")
                [] w \in {"go", "ready"} /\ compControl % 16 # 9 ->
                     TightFrom([c.e EXCEPT !.tightData = t2], rect, "length",
                               [compControl |-> compControl], "enter"))
      [] stage = "jpegLength" -> (
           LET w == WaitOutcome(e, 1, woke)
               b == socketReadInto(e, <<0>>)
               lenByte == b.v[1]
           IN CASE w = "suspend" -> TightSuspended(e, rect, stage, l)
                [] w = "timeout" -> framebufferUpdateRequest(e, TRUE)
                [] w \in {"go", "ready"} /\ lenByte >= 128 ->
                     TightFrom(b.e, rect, "jpegLength2",
                               [lenByte |-> lenByte], "enter")
                [] w \in {"go", "ready"} /\ lenByte < 128 ->
                     TightFrom(b.e, rect, "jpegData",
                               [dataLength |-> LengthOf(<<lenByte>>),
                                data |-> <<>>],
                               "enter"))
      [] stage = "jpegLength2" -> (
           LET b == socketReadBytes(e, 2)
               length == LengthOf(<<l.lenByte % 128>> \o b.v)
           IN IF WaitOutcome(e, 2, woke) = "suspend"
              THEN TightSuspended(e, rect, stage, l)
              ELSE TightFrom(b.e, rect, "jpegData",
                             [dataLength |-> length, data |-> <<>>], "enter"))
      [] stage = "jpegData" -> (
           LET r == handleTightJpeg(e, rect, l.dataLength, l.data, woke)
           IN IF r.e.pc # Idle \/ r.ok THEN r.e
              ELSE framebufferUpdateRequest(r.e, TRUE))
      [] stage = "length" -> (
           LET n == IF l.compControl < 128 THEN 1 ELSE 3
               b == socketReadBytes(e, n)
               length == LengthOf(b.v)
           IN IF WaitOutcome(e, n, woke) = "suspend"
              THEN TightSuspended(e, rect, stage, l)
              ELSE TightFrom(b.e, rect, "data",
                             [compControl |-> l.compControl,
                              length |-> length, data |-> <<>>], "enter"))
      [] stage = "data" -> (
           LET nw == Narrow(e, l.length, Len(l.data) + bytesAvailable(e))
               e1 == nw.e
               length == nw.length
           IN IF Len(l.data) < length.lo
              THEN LET bytesRead == Min(bytesAvailable(e1),
                                        length.lo - Len(l.data))
                   IN IF WaitOutcome(e1, 1, woke) = "suspend"
                      THEN TightSuspended(e1, rect, stage,
                                          [l EXCEPT !.length = length])
                      ELSE IF bytesRead <= 0
                      THEN framebufferUpdateRequest(e1, TRUE)
                      ELSE TightFrom(socketRead(e1, bytesRead), rect, stage,
                                     [l EXCEPT !.length = length,
                                               !.data = @ \o Take(e1.in, bytesRead)],
                                     "enter")
              ELSE LET expectedBytes ==
                           Int32Product(rect.w, rect.h,
                                        bitsPerPixel(e1.pixelFormat) \div 8)
                       d == decompressTightData(e1.tightData, l.compControl % 4,
                                                l.data, expectedBytes)
                       e3 == [e1 EXCEPT !.tightData = d.tightData]
                   IN IF d.out = <<>> THEN framebufferUpdateRequest(e3, TRUE)
                      ELSE SetPixels(e3, rect.x, rect.y, rect.w, rect.h,
                                     [x \in 0..(rect.w - 1), y \in 0..(rect.h - 1) |->
                                         TightColor(e3, d.out, y * rect.w + x)]))

\* void QVncClient::Private::handleTightEncoding(const Rectangle &)
handleTightEncoding(e, rect) == TightFrom(e, rect, "control", <<>>, "enter")

\* void QVncClient::Private::handleHextileEncoding(const Rectangle &): the
\* loop over the numSubrects subrectangles of the tile at (tx, ty), filled
\* with backgroundColor.  Every subrectangle takes the same number of
\* bytes, so the reads of the loop are one read of them all; a pixel keeps
\* the colour of the last subrectangle that covers it.
\*
\* read() never looks at what it has read, so where the read buffer ends
\* the loop goes on with c, xy and wh unwritten.  A subrectangle of
\* unwritten xy may cover any pixel of the tile; one of unwritten wh covers
\* its corner and may cover any pixel right of and below it.  With
\* numSubrects itself unwritten there is any number of such subrectangles,
\* in what they may cover one of unwritten xy.  A pixel is then one of the
\* colours that may have come to it last.
HextileSubrects(e, rect, tx, ty, tw, th, subencoding, backgroundColor, foregroundColor, numSubrects) ==
    LET coloured == (subencoding \div SubrectsColoured) % 2 = 1
                       /\ bitsPerPixel(e.pixelFormat) = 32
        size == IF coloured THEN 6 ELSE 2
        counted == numSubrects # Indeterminate
        n == IF counted THEN numSubrects ELSE 1
        d == ReadBytes(e, IF counted THEN numSubrects * size ELSE 0)
        color(i) == IF ~coloured THEN foregroundColor
                    ELSE IF counted
                    THEN SubSeq(d.v, (i - 1) * size + 1, (i - 1) * size + 4)
                    ELSE AnyColor
        xy(i) == IF counted THEN d.v[i * size - 1] ELSE Indeterminate
        wh(i) == IF counted THEN d.v[i * size] ELSE Indeterminate
        covers(i, q) ==
            /\ xy(i) # Indeterminate /\ wh(i) # Indeterminate
            /\ xy(i) \div 16 <= q[1] /\ q[1] < (xy(i) \div 16) + (wh(i) \div 16) + 1
            /\ xy(i) % 16 <= q[2] /\ q[2] < (xy(i) % 16) + (wh(i) % 16) + 1
        must(i, q) ==
            \/ covers(i, q)
            \/ /\ xy(i) # Indeterminate /\ wh(i) = Indeterminate
               /\ q = <<xy(i) \div 16, xy(i) % 16>>
        may(i, q) ==
            \/ must(i, q)
            \/ xy(i) = Indeterminate
            \/ /\ wh(i) = Indeterminate
               /\ xy(i) \div 16 <= q[1] /\ xy(i) % 16 <= q[2]
        covered == {q \in (0..(tw - 1)) \X (0..(th - 1)) :
                       \E i \in 1..n : may(i, q)}
        last(q) == IF \E i \in 1..n : must(i, q)
                   THEN CHOOSE i \in 1..n :
                           /\ must(i, q)
                           /\ \A k \in (i + 1)..n : ~must(k, q)
                   ELSE 0
        rgbs(q) ==
            {ToRgb(d.e, IF last(q) = 0 THEN backgroundColor
                        ELSE color(last(q)))}
              \cup {ToRgb(d.e, color(k)) :
                       k \in {i \in (last(q) + 1)..n : may(i, q)}}
    IN SetRgb(d.e, rect.x + tx, rect.y + ty, tw, th,
              [q \in covered |-> EitherRgb(rgbs(q))])

\* ... the tile at (tx, ty) when its subencoding was never written, the read
\* buffer having ended before it: the tile is done under any subencoding.
\* At 32 bits per pixel that can be any colours; at another depth, where
\* no colour is read, a pixel is left as it was (a pixel that was never
\* set is what the memory of the image held) or gets backgroundColor or
\* foregroundColor
HextileAny(e, rect, tx, ty, tw, th, backgroundColor, foregroundColor) ==
    LET was(p) == IF p \in DOMAIN e.pixels THEN e.pixels[p]
                  ELSE <<Indeterminate, Indeterminate, Indeterminate>>
    IN SetRgb(e, rect.x + tx, rect.y + ty, tw, th,
              [q \in (0..(tw - 1)) \X (0..(th - 1)) |->
                  IF bitsPerPixel(e.pixelFormat) = 32 THEN ToRgb(e, AnyColor)
                  ELSE EitherRgb({was(<<rect.x + tx + q[1], rect.y + ty + q[2]>>),
                                  ToRgb(e, backgroundColor),
                                  ToRgb(e, foregroundColor)})])

\* ... the loop over the tiles, from the tile at (tx, ty) on
RECURSIVE HextileTiles(_, _, _, _, _, _)
HextileTiles(e, rect, tx, ty, backgroundColor, foregroundColor) ==
    IF ty >= rect.h \/ rect.w = 0 THEN e
    ELSE IF tx >= rect.w
    THEN HextileTiles(e, rect, 0, ty + 16, backgroundColor, foregroundColor)
    ELSE LET th == Min(16, rect.h - ty)
             tw == Min(16, rect.w - tx)
             bpp32 == bitsPerPixel(e.pixelFormat) = 32
             s == ReadBytes(e, 1)
             subencoding == s.v[1]
             Has(flag) == (subencoding \div flag) % 2 = 1
         IN IF subencoding = Indeterminate
            THEN HextileTiles(
                     HextileAny(s.e, rect, tx, ty, tw, th, backgroundColor,
                                foregroundColor),
                     rect, tx + 16, ty,
                     IF bpp32 THEN AnyColor ELSE backgroundColor,
                     IF bpp32 THEN AnyColor ELSE foregroundColor)
            ELSE IF Has(RawSubencoding)
            THEN IF bpp32
                 THEN LET d == ReadBytes(s.e, tw * th * 4)
                      IN HextileTiles(
                             SetPixels(d.e, rect.x + tx, rect.y + ty, tw, th,
                                       [x \in 0..(tw - 1), y \in 0..(th - 1) |->
                                           SubSeq(d.v, (y * tw + x) * 4 + 1,
                                                  (y * tw + x) * 4 + 4)]),
                             rect, tx + 16, ty, backgroundColor,
                             foregroundColor)
                 ELSE HextileTiles(s.e, rect, tx + 16, ty, backgroundColor,
                                   foregroundColor)
            ELSE LET bg == IF Has(BackgroundSpecified) /\ bpp32
                           THEN ReadBytes(s.e, 4)
                           ELSE [e |-> s.e, v |-> backgroundColor]
                     filled == SetPixels(bg.e, rect.x + tx, rect.y + ty,
                                         tw, th, [x \in 0..(tw - 1), y \in 0..(th - 1) |-> bg.v])
                 IN IF Has(AnySubrects)
                    THEN LET fg == IF Has(ForegroundSpecified) /\ bpp32
                                   THEN ReadBytes(filled, 4)
                                   ELSE [e |-> filled, v |-> foregroundColor]
                             n == ReadBytes(fg.e, 1)
                         IN HextileTiles(
                                HextileSubrects(n.e, rect, tx, ty, tw, th,
                                                subencoding, bg.v, fg.v,
                                                n.v[1]),
                                rect, tx + 16, ty, bg.v, fg.v)
                    ELSE HextileTiles(filled, rect, tx + 16, ty, bg.v,
                                      foregroundColor)

\* void QVncClient::Private::handleHextileEncoding(const Rectangle &)
handleHextileEncoding(e, rect) ==
    HextileTiles(e, rect, 0, 0, <<0, 0, 0, 0>>, <<0, 0, 0, 0>>)

\* QByteArray qUncompress(const QByteArray &): the first four bytes are the
\* expected size, used to size the result; the rest must be one complete
\* zlib stream, and what it inflates to is the result; empty on failure
qUncompress(data) ==
    IF Len(data) <= 4 THEN <<>>
    ELSE LET r == inflate(inflateInit, Drop(data, 4), Len(data))
         IN IF r.ret = "Z_STREAM_END" THEN r.out ELSE <<>>

\* handleZRLEEncoding(): the palette index of pixel (x, y) of a tile in the
\* packed data, bits bits per index
PaletteIndex(data, bits, bytesPerLine, x, y) ==
    LET byte == data[y * bytesPerLine + ((x * bits) \div 8) + 1]
        bitOffset == (x * bits) % 8
    IN IF bits = 8 THEN byte % 128
       ELSE (byte \div Pow2(8 - bits - bitOffset)) % Pow2(bits)

\* void QVncClient::Private::handleZRLEEncoding(const Rectangle &): the loop
\* over the tiles, from the tile at (tx, ty) on; data is uncompressedData
\* from dataOffset on
RECURSIVE ZRLETiles(_, _, _, _, _)
ZRLETiles(e, rect, data, tx, ty) ==
    IF ty >= rect.h \/ rect.w = 0 THEN e
    ELSE IF tx >= rect.w THEN ZRLETiles(e, rect, data, 0, ty + 64)
    ELSE LET th == Min(64, rect.h - ty)
             tw == Min(64, rect.w - tx)
         IN IF data = <<>> THEN e
            ELSE LET subencoding == data[1]
                     d == Tail(data)
                     bytesPerPixel == bitsPerPixel(e.pixelFormat) \div 8
                     step == IF bytesPerPixel \in 1..4 THEN bytesPerPixel
                             ELSE 0
                 IN CASE subencoding = 0 ->
                         IF Len(d) < tw * th * 4
                         THEN ZRLETiles(e, rect, d, tx + 64, ty)
                         ELSE ZRLETiles(
                                  SetPixels(e, rect.x + tx, rect.y + ty, tw, th,
                                            [x \in 0..(tw - 1), y \in 0..(th - 1) |->
                                                [k \in 1..4 |->
                                                    IF k <= step
                                                    THEN d[(y * tw + x) * step + k]
                                                    ELSE 0]]),
                                  rect, Drop(d, tw * th * step), tx + 64, ty)
                      [] subencoding = 1 ->
                         IF Len(d) < bytesPerPixel
                         THEN ZRLETiles(e, rect, d, tx + 64, ty)
                         ELSE ZRLETiles(
                                  SetPixels(e, rect.x + tx, rect.y + ty, tw, th,
                                            [x \in 0..(tw - 1), y \in 0..(th - 1) |->
                                                [k \in 1..4 |-> constData(e, d, k)]]),
                                  rect, Drop(d, 4), tx + 64, ty)
                      [] subencoding = 2 /\ d = <<>> ->
                         ZRLETiles(e, rect, d, tx + 64, ty)
                      [] subencoding = 2 /\ d # <<>> ->
                         LET paletteSize == d[1]
                             d1 == Tail(d)
                             palette == [i \in 0..(paletteSize - 1) |->
                                            SubSeq(d1, 4 * i + 1, 4 * i + 4)]
                             d2 == Drop(d1, paletteSize * 4)
                             bits == IF paletteSize <= 2 THEN 1
                                     ELSE IF paletteSize <= 4 THEN 2
                                     ELSE IF paletteSize <= 16 THEN 4 ELSE 8
                             bytesPerLine == (tw * bits + 7) \div 8
                             totalBytes == bytesPerLine * th
                             index(q) == PaletteIndex(d2, bits, bytesPerLine,
                                                      q[1], q[2])
                         IN IF paletteSize = 0 \/ Len(d1) < paletteSize * 4
                            THEN ZRLETiles(e, rect, d1, tx + 64, ty)
                            ELSE IF Len(d2) < totalBytes
                            THEN ZRLETiles(e, rect, d2, tx + 64, ty)
                            ELSE ZRLETiles(
                                     SetPixels(e, rect.x + tx, rect.y + ty, tw, th,
                                               [q \in {r \in (0..(tw - 1)) \X (0..(th - 1)) :
                                                          index(r) < paletteSize}
                                                  |-> palette[index(q)]]),
                                     rect, Drop(d2, totalBytes), tx + 64, ty)
                      [] subencoding >= 3 ->
                         ZRLETiles(e, rect, d, tx + 64, ty)

\* void QVncClient::Private::handleZRLEEncoding(const Rectangle &) from
\* the head of the loop that waits for the compressed data on, in the wait
\* (pc.at = "zrle") or behind it.  woke is "timeout" when waitForReadyRead
\* has returned false.
ZRLEWait(e, rect, zlibDataLength, woke) ==
    IF LessThanU32(bytesAvailable(e), zlibDataLength) /\ woke # "timeout"
       /\ isValid(e)
    THEN [e EXCEPT !.pc = [at |-> "zrle", rect |-> rect, l |-> zlibDataLength]]
    ELSE LET n == IF LessThanU32(bytesAvailable(e), zlibDataLength)
                  THEN bytesAvailable(e)
                  ELSE ReadU32BE(zlibDataLength)
             uncompressedData == qUncompress(Take(e.in, n))
             e2 == socketRead(e, n)
         IN IF uncompressedData = <<>>
            THEN framebufferUpdateRequest(e2, TRUE)
            ELSE ZRLETiles(e2, rect, uncompressedData, 0, 0)

\* void QVncClient::Private::handleZRLEEncoding(const Rectangle &)
handleZRLEEncoding(e, rect) ==
    IF bytesAvailable(e) < 4 THEN e
    ELSE LET zlibDataLength == ReadBytes(e, 4)
         IN IF zlibDataLength.v = <<0, 0, 0, 0>> THEN zlibDataLength.e
            ELSE ZRLEWait(zlibDataLength.e, rect, zlibDataLength.v, "enter")

\* void QVncClient::Private::framebufferUpdate(): the loop over the
\* rectangles from rectangle i of numberOfRectangles on.  A handler that is
\* suspended in waitForReadyRead suspends the loop with it: pc then holds
\* the rectangle, i and numberOfRectangles too.
RECURSIVE RectangleLoop(_, _, _)
AfterRectangle(r, rect, i, numberOfRectangles) ==
    IF r.pc = Idle
    THEN RectangleLoop(EmitImageChanged(r, rect), i + 1, numberOfRectangles)
    ELSE IF r.pc.at = "hung" THEN r
    ELSE [r EXCEPT !.pc = [i |-> i, n |-> numberOfRectangles] @@ @]

RectangleLoop(e, i, numberOfRectangles) ==
    IF i >= numberOfRectangles THEN framebufferUpdateRequest(e, TRUE)
    ELSE IF bytesAvailable(e) < 12 THEN e
    ELSE LET r == ReadBytes(e, 8)
             t == ReadBytes(r.e, 4)
             rect == [x |-> ReadU16BE(SubSeq(r.v, 1, 2)),
                      y |-> ReadU16BE(SubSeq(r.v, 3, 4)),
                      w |-> ReadU16BE(SubSeq(r.v, 5, 6)),
                      h |-> ReadU16BE(SubSeq(r.v, 7, 8))]
             encodingType == t.v
             e1 == t.e
         IN CASE encodingType = WriteU32BE(RawEncoding) ->
                   AfterRectangle(RawWait(e1, rect), rect, i,
                                  numberOfRectangles)
              [] encodingType = WriteU32BE(Hextile) ->
                   AfterRectangle(handleHextileEncoding(e1, rect), rect, i,
                                  numberOfRectangles)
              [] encodingType = WriteU32BE(ZRLE) ->
                   AfterRectangle(handleZRLEEncoding(e1, rect), rect, i,
                                  numberOfRectangles)
              [] encodingType = WriteU32BE(Tight) ->
                   AfterRectangle(handleTightEncoding(e1, rect), rect, i,
                                  numberOfRectangles)
              [] encodingType \notin {WriteU32BE(RawEncoding), WriteU32BE(Hextile),
                                      WriteU32BE(Tight), WriteU32BE(ZRLE)} ->
                   RectangleLoop(e1, i + 1, numberOfRectangles)

\* framebufferUpdate() out of the waitForReadyRead it was suspended in at p:
\* the rest of the handler of the rectangle and of the loop
Resume(e, p, woke) ==
    AfterRectangle(
        CASE p.at = "raw" -> RawWait(e, p.rect)
          [] p.at = "tight" -> TightFrom(e, p.rect, p.stage, p.l, woke)
          [] p.at = "zrle" -> ZRLEWait(e, p.rect, p.l, woke),
        p.rect, p.i, p.n)

\* variant: the notifications of an update leave in the opposite order
framebufferUpdateReversed(e) ==
    IF bytesAvailable(e) < 3 THEN e
    ELSE LET n == ReadBytes(socketRead(e, 1), 2)
             r == RectangleLoop(n.e, 0, ReadU16BE(n.v))
         IN [r EXCEPT !.emitted =
                [i \in 1..Len(r.emitted) |-> r.emitted[Len(r.emitted) + 1 - i]]]

\* void QVncClient::Private::framebufferUpdate()
framebufferUpdate(e) ==
    IF bytesAvailable(e) < 3 THEN e
    ELSE LET numberOfRectangles == ReadBytes(socketRead(e, 1), 2)
         IN RectangleLoop(numberOfRectangles.e, 0,
                          ReadU16BE(numberOfRectangles.v))

\* variant: a message of unknown type restarts the handshake
parseServerMessagesRestart(e) ==
    IF bytesAvailable(e) < 1 THEN e
    ELSE LET messageType == ReadInto(e, <<0>>)
         IN IF messageType.v[1] = FramebufferUpdate
            THEN framebufferUpdate(messageType.e)
            ELSE [messageType.e EXCEPT !.state = ProtocolVersionState]

\* void QVncClient::Private::parseServerMessages()
parseServerMessages(e) ==
    IF bytesAvailable(e) < 1 THEN e
    ELSE LET messageType == ReadInto(e, <<0>>)
         IN IF messageType.v[1] = FramebufferUpdate
            THEN framebufferUpdate(messageType.e)
            ELSE messageType.e

\* void QVncClient::Private::read()
read(e) ==
    CASE e.state = ProtocolVersionState -> parseProtocolVersion(e)
      [] e.state = SecurityState -> parseSecurity(e)
      [] e.state = ServerInitState -> parserServerInit(e)
      [] e.state = WaitingState -> parseServerMessages(e)
      [] OTHER -> socketRead(e, Len(e.in))

\* ------------------------------------------------------------------------
\* The server: the messages it may put on the wire of a connection
\* ------------------------------------------------------------------------
RFB40 == <<82, 70, 66, 32, 48, 48, 52, 46, 48, 48, 48, 10>>
VersionStrings == {RFB33, RFB37, RFB38}

SecurityWord(n) == WriteU32BE(n)
SecurityWords == {SecurityWord(n) : n \in {0, 1, 2, 257}}

\* the reason of a security failure: length 1 and the text "!"
ReasonMessage == <<0, 0, 0, 1, 33>>

\* 32 bits per pixel, depth 24, little endian, true colour, 8 bits a channel
PixelFormat32 == <<32, 24, 0, 1, 0, 255, 0, 255, 0, 255, 16, 8, 0, 0, 0, 0>>
\* 16 bits per pixel, 5-6-5, with non-zero padding bytes
PixelFormat16 == <<16, 16, 0, 1, 0, 31, 0, 63, 0, 31, 11, 5, 0, 1, 2, 3>>

ServerInitMessage(W, H, pf, name) ==
    WriteU16BE(W) \o WriteU16BE(H) \o pf \o WriteU32BE(Len(name)) \o name
ServerInitMessages ==
    { ServerInitMessage(1, 1, PixelFormat32, <<>>),
      ServerInitMessage(2, 1, PixelFormat32, <<97>>),
      ServerInitMessage(1, 2, PixelFormat16, <<>>) }

\* FramebufferUpdate with one rectangle (x, y, w, h) of the given encoding
UpdateMessage(x, y, w, h, encoding, payload) ==
    <<FramebufferUpdate, 0>> \o WriteU16BE(1)
      \o WriteU16BE(x) \o WriteU16BE(y) \o WriteU16BE(w) \o WriteU16BE(h)
      \o WriteU32BE(encoding) \o payload
RawUpdate1x1 == UpdateMessage(0, 0, 1, 1, RawEncoding, <<0, 0, 255, 0>>)

\* the byte script of a 3.8 server: version, one security type (None),
\* SecurityResult OK, ServerInit and an update with one 1x1 Raw rectangle
S5Script ==
    RFB38 \o <<1>> \o <<SecurityTypeNone>> \o <<0, 0, 0, 0>>
      \o ServerInitMessage(1, 1, PixelFormat32, <<>>) \o RawUpdate1x1

\* one rectangle of a FramebufferUpdate: header and payload
Rect(x, y, w, h, encoding, payload) ==
    [x |-> x, y |-> y, w |-> w, h |-> h, encoding |-> encoding,
     payload |-> payload]
RectBytes(r) ==
    WriteU16BE(r.x) \o WriteU16BE(r.y) \o WriteU16BE(r.w) \o WriteU16BE(r.h)
      \o WriteU32BE(r.encoding) \o r.payload
RECURSIVE RectsBytes(_)
RectsBytes(rects) ==
    IF rects = <<>> THEN <<>>
    ELSE RectBytes(Head(rects)) \o RectsBytes(Tail(rects))
\* FramebufferUpdate with the rectangles rects
UpdateOf(rects) ==
    <<FramebufferUpdate, 0>> \o WriteU16BE(Len(rects)) \o RectsBytes(rects)

\* the ServerInit of a framebuffer of 2 x 2 pixels of 32 bits, without a name
ServerInit2x2 == ServerInitMessage(2, 2, PixelFormat32, <<>>)

\* the updates a server sends for that framebuffer:
\* a Raw rectangle two rows high; two Raw rectangles; a Raw rectangle that
\* reaches beyond the framebuffer; a CopyRect rectangle (an encoding the
\* client did not announce) followed by a Raw rectangle
Pixel == <<0, 0, 255, 0>>
UpdateTall == <<Rect(0, 0, 1, 2, RawEncoding, Pixel \o Pixel)>>
UpdateTwo == <<Rect(0, 0, 1, 1, RawEncoding, Pixel),
               Rect(1, 1, 1, 1, RawEncoding, Pixel)>>
UpdateBeyond == <<Rect(1, 1, 2, 1, RawEncoding, Pixel \o Pixel)>>
UpdateCopyRect == <<Rect(0, 0, 1, 1, CopyRect, <<0, 0, 0, 0>>),
                    Rect(1, 0, 1, 1, RawEncoding, Pixel)>>
UpdateRects == {UpdateTall, UpdateTwo, UpdateBeyond, UpdateCopyRect}
UpdateMessages == {UpdateOf(rects) : rects \in UpdateRects}
\* the rectangles of an update message of the menu
RectsOf(seg) == CHOOSE rects \in UpdateRects : UpdateOf(rects) = seg

\* Tight rectangles as handleTightEncoding() reads them: the compression
\* control byte, the length in one byte (three when bit 7 of the control
\* byte is set) and the zlib data.  ChunkFirst is what a deflate stream of
\* stored blocks starts with for one pixel (zlib header, block, sync
\* flush), ChunkNext what it goes on with for the next pixel.
ChunkFirst == <<120, 1, 0, 4, 0, 251, 255>> \o Pixel \o <<0, 0, 0, 255, 255>>
ChunkNext == <<0, 4, 0, 251, 255>> \o Pixel \o <<0, 0, 0, 255, 255>>
TightRect(compControl, length, data) ==
    Rect(0, 0, 1, 1, Tight, <<compControl>> \o length \o data)
TightFirst == <<TightRect(0, <<Len(ChunkFirst)>>, ChunkFirst)>>
TightNext == <<TightRect(0, <<Len(ChunkNext)>>, ChunkNext)>>
TightReset == <<TightRect(128, <<0, 0, Len(ChunkFirst)>>, ChunkFirst)>>
TightOther == <<TightRect(1, <<Len(ChunkFirst)>>, ChunkFirst)>>
TightJpeg == <<TightRect(9, <<2>>, <<0, 0>>)>>
\* control bytes as the Tight extension of RFB lays them out: bit 4 asks
\* for a reset of stream 0; low nibble 8 is Fill, followed by one pixel
TightBit4 == <<TightRect(16, <<Len(ChunkFirst)>>, ChunkFirst)>>
TightFill == <<TightRect(8, <<>>, Pixel)>>
TightUpdates ==
    {TightFirst, TightNext, TightReset, TightOther, TightJpeg, TightBit4,
     TightFill}
TightMessages == {UpdateOf(rects) : rects \in TightUpdates}
TightRectsOf(seg) == CHOOSE rects \in TightUpdates : UpdateOf(rects) = seg

\* Hextile rectangles on a framebuffer of 18 x 1: a first tile of 16 x 1
\* and a second of 2 x 1
ServerInit18x1 == ServerInitMessage(18, 1, PixelFormat32, <<>>)
Green == <<0, 255, 0, 0>>
Red == <<0, 0, 255, 0>>
Blue == <<255, 0, 0, 0>>
HextileRect(w, tiles) == Rect(0, 0, w, 1, Hextile, tiles)
\* background, foreground and a subrectangle, then a tile that reuses both
HexBoth ==
    <<HextileRect(18, <<14>> \o Green \o Red \o <<1, 0, 0>> \o <<8, 1, 0, 0>>)>>
\* one raw tile of one pixel
HexRaw == <<HextileRect(1, <<1>> \o Blue)>>
\* a coloured subrectangle at (1, 0)
HexColoured == <<HextileRect(2, <<26>> \o Green \o <<1>> \o Blue \o <<16, 0>>)>>
\* a tile that gives the foreground only, then a tile with a background
HexFgOnly == <<HextileRect(18, <<4>> \o Red \o <<2>> \o Green)>>
\* a tile that gives both colours and has no subrectangle, then a tile
\* whose subrectangle uses the foreground
HexFgLater ==
    <<HextileRect(18, <<6>> \o Green \o Red \o <<8, 1, 0, 0>>)>>
HextileUpdates == {HexBoth, HexRaw, HexColoured, HexFgOnly, HexFgLater}
HextileMessages == {UpdateOf(rects) : rects \in HextileUpdates}
HextileRectsOf(seg) == CHOOSE rects \in HextileUpdates : UpdateOf(rects) = seg

\* ZRLE rectangles on a framebuffer of 2 x 2. One zlib stream that the
\* server flushes after every rectangle: the tile of the first rectangle is
\* solid red, the tile of the second solid green
ZRLERect(x, y, data) == Rect(x, y, 1, 1, ZRLE, WriteU32BE(Len(data)) \o data)
ZRLEChunkFirst ==
    <<120, 1, 0, 5, 0, 250, 255, 1>> \o Red \o <<0, 0, 0, 255, 255>>
ZRLEChunkNext == <<0, 5, 0, 250, 255, 1>> \o Green \o <<0, 0, 0, 255, 255>>
ZRLEFirst == <<ZRLERect(0, 0, ZRLEChunkFirst)>>
ZRLENext == <<ZRLERect(1, 0, ZRLEChunkNext)>>
ZRLEBoth == ZRLEFirst \o ZRLENext
\* a rectangle without data
ZRLEEmpty == <<ZRLERect(0, 1, <<>>)>>
\* rectangles whose data is an expected size and one complete zlib stream
\* of its own: a solid blue tile, a raw blue tile, a tile of palette RLE
ZRLESolid ==
    <<ZRLERect(0, 1, <<0, 0, 0, 5, 120, 1, 1, 5, 0, 250, 255, 1>> \o Blue
                       \o <<4, 6, 1, 1>>)>>
ZRLERaw ==
    <<ZRLERect(1, 1, <<0, 0, 0, 5, 120, 1, 1, 5, 0, 250, 255, 0>> \o Blue
                       \o <<4, 1, 1, 0>>)>>
ZRLEPaletteRLE ==
    <<ZRLERect(1, 1, <<0, 0, 0, 1, 120, 1, 1, 1, 0, 254, 255, 3, 0, 4, 0, 4>>)>>
ZRLEUpdates ==
    {ZRLEFirst, ZRLENext, ZRLEBoth, ZRLEEmpty, ZRLESolid, ZRLERaw,
     ZRLEPaletteRLE}
ZRLEMessages == {UpdateOf(rects) : rects \in ZRLEUpdates}
ZRLERectsOf(seg) == CHOOSE rects \in ZRLEUpdates : UpdateOf(rects) = seg

\* key events: a letter, Return, F1 and Shift, Escape (not in keyMap, text
\* U+001B), a character outside the basic plane (U+1F600 as two UTF-16
\* code units, key 0), and Caps Lock (not in keyMap, no text)
KeyInputs ==
    {[key |-> 65, text |-> <<97>>], [key |-> 16777220, text |-> <<13>>],
     [key |-> 16777264, text |-> <<>>], [key |-> 16777248, text |-> <<>>],
     [key |-> 16777216, text |-> <<27>>],
     [key |-> 0, text |-> <<55357, 56832>>],
     [key |-> 16777252, text |-> <<>>]}
KeyEvents ==
    {[key |-> k.key, text |-> k.text, press |-> p] :
        k \in KeyInputs, p \in BOOLEAN}
\* pointer events: a move, a left press at (1, 1), a drag with the left and
\* right buttons to the left of the widget
PointerEvents ==
    {[buttons |-> {}, x |-> 0, y |-> 1],
     [buttons |-> {"left"}, x |-> 1, y |-> 1],
     [buttons |-> {"left", "right"}, x |-> -1, y |-> 300]}

\* Rectangles for the decoders, on a framebuffer of 2 x 2 with little-endian
\* or big-endian pixels or with shifts of 32 and 255 bits, or one of 1 x 65
PixelFormat32BE == <<32, 24, 1, 1, 0, 255, 0, 255, 0, 255, 16, 8, 0, 0, 0, 0>>
PixelFormat32Shift ==
    <<32, 24, 0, 1, 0, 255, 0, 255, 0, 255, 32, 8, 255, 0, 0, 0>>
ServerInit2x2BE == ServerInitMessage(2, 2, PixelFormat32BE, <<>>)
ServerInit2x2Shift == ServerInitMessage(2, 2, PixelFormat32Shift, <<>>)
ServerInit1x65 == ServerInitMessage(1, 65, PixelFormat32, <<>>)
DecodeServerInits ==
    {ServerInit2x2, ServerInit2x2BE, ServerInit2x2Shift, ServerInit1x65}
\* Tight, basic compression: 131 bytes of zlib data (a stored block of one
\* pixel and 24 empty stored blocks) behind their length in compact form
TightLong ==
    <<Rect(0, 0, 1, 1, Tight,
           <<0, 131, 1>> \o ChunkFirst
             \o [i \in 1..115 |-> <<0, 0, 0, 255, 255>>[((i - 1) % 5) + 1]])>>
\* Tight, basic compression: two pixels announced, one pixel inflated
TightShort == <<Rect(0, 0, 2, 1, Tight, <<0, Len(ChunkFirst)>> \o ChunkFirst)>>
\* Tight, JPEG: a rectangle of 1 x 1 with an image of 2 x 2
TightJpegLarge ==
    <<Rect(0, 0, 1, 1, Tight, <<9, 128, 0, Len(JpegGray2x2)>> \o JpegGray2x2)>>
\* Raw: one pixel whose bytes are 00 FF 00 00
RawWord == <<Rect(0, 0, 1, 1, RawEncoding, Green)>>
\* ZRLE, each with an expected size and a complete zlib stream.  Two tiles,
\* 1 x 64 solid red and 1 x 1 of the reserved subencoding 17
ZRLEPartial ==
    <<Rect(0, 0, 1, 65, ZRLE,
           WriteU32BE(21) \o <<0, 0, 0, 6, 120, 1, 1, 6, 0, 249, 255>>
             \o <<1>> \o Red \o <<17>> \o <<3, 26, 1, 18>>)>>
\* one tile of 1 x 1: code 2, the palette red, green, and the index 1
ZRLEPacked ==
    <<Rect(0, 0, 1, 1, ZRLE,
           WriteU32BE(25) \o <<0, 0, 0, 10, 120, 1, 1, 10, 0, 245, 255>>
             \o <<2>> \o Red \o Green \o <<128>> \o <<11, 147, 2, 129>>)>>
\* the same with a palette size byte after the code
ZRLEPackedSized ==
    <<Rect(0, 0, 1, 1, ZRLE,
           WriteU32BE(26) \o <<0, 0, 0, 11, 120, 1, 1, 11, 0, 244, 255>>
             \o <<2, 2>> \o Red \o Green \o <<128>> \o <<11, 170, 2, 131>>)>>
\* Hextile: a tile of 2 x 1 with a red background and one coloured
\* subrectangle, blue, at (1, 0)
HexSubrect == <<HextileRect(2, <<26>> \o Red \o <<1>> \o Blue \o <<16, 0>>)>>
DecodeUpdates ==
    {TightLong, TightShort, TightJpegLarge, RawWord, ZRLEPartial, ZRLEPacked,
     ZRLEPackedSized, HexSubrect}
DecodeMessages == {UpdateOf(rects) : rects \in DecodeUpdates}
DecodeRectsOf(seg) == CHOOSE rects \in DecodeUpdates : UpdateOf(rects) = seg
\* What the build leaves undefined, as far as the course of a handler
\* depends on it: the shift count the processor keeps of a count of 32 or
\* more (modulo 32 on one machine, all of it, giving 0, on another), and
\* which length a length made of unwritten bytes is (Narrow)
UndefinedOutcomes == [shiftModulo : {32, 256}, lengthIs : 0..16777215]
\* one of them
UndefinedDefault == [shiftModulo |-> 32, lengthIs |-> 0]
\* the outcomes that make a difference to a handler that, run under
\* UndefinedDefault, has left the engine r: the shift counts when it may
\* shift by 32 or more, the lengths r.lengths when it has come to a length
\* of unwritten bytes
UndefinedMet(r) ==
    LET pf == r.pixelFormat
        shifts == IF \/ "shift" \in r.undefined
                     \/ /\ r.lengths # {}
                        /\ \/ redShift(pf) >= 32 \/ greenShift(pf) >= 32
                           \/ blueShift(pf) >= 32
                  THEN {32, 256} ELSE {32}
        lengths == IF r.lengths = {} THEN {0} ELSE r.lengths
    IN {[shiftModulo |-> m, lengthIs |-> n] : m \in shifts, n \in lengths}
\* the engines that a handler can leave, run being the engine it leaves
\* under each of UndefinedOutcomes
Outcomes(run) ==
    LET r == run[UndefinedDefault]
    IN IF UndefinedMet(r) = {UndefinedDefault} THEN {r}
       ELSE {run[ub] : ub \in UndefinedMet(r)}

\* a server message of a type other than FramebufferUpdate: Bell
BellMessage == <<2>>

ServerMessages ==
    VersionStrings \cup {RFB40} \cup SecurityWords \cup {ReasonMessage}
      \cup ServerInitMessages

\* ------------------------------------------------------------------------
\* State
\* ------------------------------------------------------------------------
VARIABLES
    socket,             \* d->socket
    prev,               \* d->prev: the socket whose signals are connected
    state,              \* d->state
    protocolVersion,    \* d->protocolVersion
    securityType,       \* d->securityType
    pixelFormat,        \* d->pixelFormat
    frameBufferWidth,   \* d->frameBufferWidth
    frameBufferHeight,  \* d->frameBufferHeight
    image,              \* size of d->image
    pixels,             \* the pixels of d->image written since it was made
    tightData,          \* d->tightData: the four zlib streams of Tight
    pc,                 \* where read() is suspended in waitForReadyRead
    sockState,          \* QTcpSocket::state() of every socket
    inbuf,              \* read buffer of every socket
    outbuf,             \* bytes the client wrote on the current connection
    wire,               \* bytes of the server not yet delivered
    msgLen,             \* length of the server message in flight
    emitted,            \* signals emitted by the last step, in order
    last,               \* the last step taken
    lastCsc,            \* argument of the last connectionStateChanged
    mon,                \* per connection: what the server has sent so far
    nSent, nConn, nSets, \* events so far
    nKeys               \* key and pointer events so far

vars == <<socket, prev, state, protocolVersion, securityType, pixelFormat,
          frameBufferWidth, frameBufferHeight, image, pixels, tightData, pc,
          sockState, inbuf,
          outbuf, wire, msgLen, emitted, last, lastCsc, mon, nSent, nConn, nSets,
          nKeys>>

hostVars == <<socket, prev>>
engineVars == <<state, protocolVersion, securityType, pixelFormat,
                frameBufferWidth, frameBufferHeight, image, pixels, tightData,
                pc>>
countVars == <<nSent, nConn, nSets, nKeys>>

\* the engine as a handler of socket s finds it, with read buffer in
Engine(s, in, out) ==
    [state |-> state, protocolVersion |-> protocolVersion,
     securityType |-> securityType, pixelFormat |-> pixelFormat,
     frameBufferWidth |-> frameBufferWidth,
     frameBufferHeight |-> frameBufferHeight, image |-> image,
     pixels |-> pixels, tightData |-> tightData,
     in |-> in, out |-> out, valid |-> TRUE, emitted |-> <<>>, pc |-> Idle,
     shiftModulo |-> UndefinedDefault.shiftModulo,
     lengthIs |-> UndefinedDefault.lengthIs, undefined |-> {},
     lengths |-> {}]

\* the engine e in a run of outcome ub of what is undefined
Undefined(e, ub) ==
    [e EXCEPT !.shiftModulo = ub.shiftModulo, !.lengthIs = ub.lengthIs]

\* the handler has returned (or is suspended) leaving e
Commit(e, s) ==
    /\ state' = e.state
    /\ protocolVersion' = e.protocolVersion
    /\ securityType' = e.securityType
    /\ pixelFormat' = e.pixelFormat
    /\ frameBufferWidth' = e.frameBufferWidth
    /\ frameBufferHeight' = e.frameBufferHeight
    /\ image' = e.image
    /\ pixels' = e.pixels
    /\ tightData' = e.tightData
    /\ pc' = e.pc
    /\ inbuf' = [inbuf EXCEPT ![s] = e.in]
    /\ outbuf' = [outbuf EXCEPT ![s] = e.out]
    /\ emitted' = e.emitted

\* the arguments of the connectionStateChanged signals among sigs
RECURSIVE CscOf(_)
CscOf(sigs) ==
    IF sigs = <<>> THEN <<>>
    ELSE IF Head(sigs).sig = "connectionStateChanged"
         THEN [i \in 1..Head(sigs).times |-> Head(sigs).args[1]]
                \o CscOf(Tail(sigs))
         ELSE CscOf(Tail(sigs))

LastCscAfter(sigs) ==
    IF CscOf(sigs) = <<>> THEN lastCsc ELSE CscOf(sigs)[Len(CscOf(sigs))]

\* What the server has sent on a connection, as far as the properties need
\* it.  att: the socket has been attached since it connected; parsed: a
\* handler has run on bytes of the socket since it was attached; stage: how
\* far the server is along the handshake; ver: the version string it has
\* just sent; si: the ServerInit it sent; upd: the rectangles of the update
\* it sent after the handshake; whole: every message so far arrived
\* in one piece; rx: the bytes delivered since the server opened with an
\* unknown version string
MonOff == [att |-> FALSE, parsed |-> FALSE, stage |-> "off", ver |-> <<>>,
           si |-> <<>>, upd |-> <<>>, whole |-> FALSE, rx |-> 0]
MonStart == [MonOff EXCEPT !.att = TRUE, !.stage = "start", !.whole = TRUE]
MonStop(m) == [MonOff EXCEPT !.att = m.att, !.parsed = m.parsed]
MonSend(m, seg) ==
    CASE m.stage = "start" /\ seg \in VersionStrings ->
           [m EXCEPT !.stage = "ver", !.ver = seg]
      [] m.stage = "start" /\ seg = RFB40 -> [m EXCEPT !.stage = "badver"]
      [] m.stage = "start" /\ seg = S5Script -> [m EXCEPT !.stage = "s5"]
      [] m.stage = "ver" /\ seg = SecurityWord(1) ->
           [m EXCEPT !.stage = "sec1", !.ver = <<>>]
      [] m.stage = "ver" /\ seg = SecurityWord(0) ->
           [m EXCEPT !.stage = "secfail", !.ver = <<>>]
      [] m.stage = "sec1" /\ seg \in ServerInitMessages
                                    \cup {ServerInit2x2, ServerInit18x1}
                                    \cup DecodeServerInits ->
           [m EXCEPT !.stage = "init", !.si = seg]
      [] m.stage = "init" /\ seg \in UpdateMessages ->
           [m EXCEPT !.stage = "upd", !.upd = RectsOf(seg)]
      [] m.stage = "init" /\ seg = BellMessage -> [m EXCEPT !.stage = "bell"]
      [] m.stage = "init" /\ seg \in ZRLEMessages ->
           [m EXCEPT !.stage = "zrle", !.upd = ZRLERectsOf(seg)]
      [] m.stage = "zrle" /\ seg \in ZRLEMessages ->
           [m EXCEPT !.upd = @ \o ZRLERectsOf(seg)]
      [] m.stage \in {"init", "dec"} /\ seg \in DecodeMessages ->
           [m EXCEPT !.stage = "dec", !.upd = DecodeRectsOf(seg)]
      [] m.stage \in {"init", "hex"} /\ seg \in HextileMessages ->
           [m EXCEPT !.stage = "hex", !.upd = HextileRectsOf(seg)]
      [] m.stage \in {"init", "tight"} /\ seg \in TightMessages ->
           [m EXCEPT !.stage = "tight", !.upd = TightRectsOf(seg)]
      [] m.stage \in {"badver", "secfail"} -> m
      [] OTHER -> MonStop(m)

Init ==
    /\ socket = NoSocket
    /\ prev = NoSocket
    /\ state = ProtocolVersionState
    /\ protocolVersion = ProtocolVersionUnknown
    /\ securityType = SecurityTypeUnknwon
    /\ pixelFormat = PixelFormatDefault
    /\ frameBufferWidth = 0
    /\ frameBufferHeight = 0
    /\ image = [w |-> 0, h |-> 0]
    /\ pixels = <<>>
    /\ tightData = TightDataInit
    /\ pc = Idle
    /\ sockState = [s \in Sockets |-> "Unconnected"]
    /\ inbuf = [s \in Sockets |-> <<>>]
    /\ outbuf = [s \in Sockets |-> <<>>]
    /\ wire = [s \in Sockets |-> <<>>]
    /\ msgLen = [s \in Sockets |-> 0]
    /\ emitted = <<>>
    /\ last = [op |-> "init", s |-> NoSocket]
    /\ lastCsc = -1
    /\ mon = [s \in Sockets |-> MonOff]
    /\ nSent = 0
    /\ nConn = 0
    /\ nSets = 0
    /\ nKeys = 0

\* ------------------------------------------------------------------------
\* Steps
\* ------------------------------------------------------------------------
\* void QVncClient::setSocket(QTcpSocket *) and the socketChanged handler
\* of the Private constructor
setSocket(t) ==
    /\ pc = Idle
    /\ socket # t
    /\ socket' = t
    /\ prev' = t
    /\ emitted' = <<[sig |-> "socketChanged", args |-> <<t>>, times |-> 1]>>
    /\ last' = [op |-> "setSocket", s |-> t]
    /\ mon' = [s \in Sockets |-> IF s = prev \/ s = t THEN MonOff ELSE mon[s]]
    /\ nSets' = nSets + 1
    /\ UNCHANGED <<engineVars, sockState, inbuf, outbuf, wire, msgLen,
                   lastCsc, nSent, nConn, nKeys>>
\* QVncClient::Private::Private(QVncClient *): keyMap, from the value of
\* the Qt::Key to the keysym
keyMap ==
    (16777219 :> 65288)       \* Qt::Key_Backspace, 0xff08
    @@ (16777217 :> 65289)    \* Qt::Key_Tab, 0xff09
    @@ (16777220 :> 65293)    \* Qt::Key_Return, 0xff0d
    @@ (16777221 :> 65293)    \* Qt::Key_Enter, 0xff0d
    @@ (16777222 :> 65379)    \* Qt::Key_Insert, 0xff63
    @@ (16777223 :> 65535)    \* Qt::Key_Delete, 0xffff
    @@ (16777232 :> 65360)    \* Qt::Key_Home, 0xff50
    @@ (16777233 :> 65367)    \* Qt::Key_End, 0xff57
    @@ (16777238 :> 65365)    \* Qt::Key_PageUp, 0xff55
    @@ (16777239 :> 65366)    \* Qt::Key_PageDown, 0xff56
    @@ (16777234 :> 65361)    \* Qt::Key_Left, 0xff51
    @@ (16777235 :> 65362)    \* Qt::Key_Up, 0xff52
    @@ (16777236 :> 65363)    \* Qt::Key_Right, 0xff53
    @@ (16777237 :> 65364)    \* Qt::Key_Down, 0xff54
    @@ [k \in 16777264..16777275 |-> 65470 + (k - 16777264)]
                              \* Qt::Key_F1 .. Qt::Key_F12, 0xffbe .. 0xffc9
    @@ (16777248 :> 65505)    \* Qt::Key_Shift, 0xffe1
    @@ (16777249 :> 65507)    \* Qt::Key_Control, 0xffe3
    @@ (16777250 :> 65511)    \* Qt::Key_Meta, 0xffe7
    @@ (16777251 :> 65513)    \* Qt::Key_Alt, 0xffe9

\* void QVncClient::Private::keyEvent(QKeyEvent *e) with a socket attached.
\* ev.key is e->key(), ev.text the UTF-16 code units of e->text(), ev.press
\* whether e->type() is QEvent::KeyPress; code is declared without a value
\* and, when no branch assigns it, written as its four bytes are
keyEvent(e, ev) ==
    LET downFlag == IF ev.press THEN 1 ELSE 0
        code == IF ev.key \in DOMAIN keyMap THEN WriteU32BE(keyMap[ev.key])
                ELSE IF ev.text # <<>> THEN WriteU32BE(ev.text[1])
                ELSE [i \in 1..4 |-> Indeterminate]
    IN write(socketWrite(write(write(e, <<4>>), <<downFlag>>), <<32, 32>>),
             code)

\* variant: the handler leaves the handshake state as it finds it
connectedHandlerKeepsState(e) ==
    read(setSecurityType(
             setProtocolVersion(Emit(e, "connectionStateChanged", <<1>>),
                                ProtocolVersionUnknown),
             SecurityTypeUnknwon))

\* the handler of QTcpSocket::connected
connectedHandler(e) ==
    read(setSecurityType(
             setProtocolVersion(
                 [Emit(e, "connectionStateChanged", <<1>>) EXCEPT
                     !.state = ProtocolVersionState],
                 ProtocolVersionUnknown),
             SecurityTypeUnknwon))

\* variant: the handler reports nothing
disconnectedHandlerSilent(e) == e

\* the handler of QTcpSocket::disconnected
disconnectedHandler(e) == Emit(e, "connectionStateChanged", <<0>>)

\* socket s becomes connected; a new connection starts with empty buffers
TransportConnected(s) ==
    /\ pc = Idle
    /\ sockState[s] = "Unconnected"
    /\ sockState' = [sockState EXCEPT ![s] = "Connected"]
    /\ wire' = [wire EXCEPT ![s] = <<>>]
    /\ msgLen' = [msgLen EXCEPT ![s] = 0]
    /\ mon' = [mon EXCEPT ![s] = IF s = prev THEN MonStart ELSE MonOff]
    /\ nConn' = nConn + 1
    /\ last' = [op |-> "connected", s |-> s]
    /\ IF s = prev
       THEN LET e == connectedHandler(Engine(s, <<>>, <<>>))
            IN Commit(e, s) /\ lastCsc' = LastCscAfter(e.emitted)
       ELSE /\ inbuf' = [inbuf EXCEPT ![s] = <<>>]
            /\ outbuf' = [outbuf EXCEPT ![s] = <<>>]
            /\ emitted' = <<>>
            /\ UNCHANGED <<engineVars, lastCsc>>
    /\ UNCHANGED <<hostVars, nSent, nSets, nKeys>>

\* the handlers that run when socket s, the attached one, becomes
\* unconnected, under every outcome ub of what is undefined
disconnectedWith(s) ==
    [ub \in UndefinedOutcomes |->
        LET d == disconnectedHandler(Engine(s, inbuf[s], outbuf[s]))
        IN CASE pc = Idle -> d
             [] pc # Idle /\ pc.at = "raw" -> [d EXCEPT !.pc = [at |-> "hung"]]
             [] pc # Idle /\ pc.at # "raw" ->
                  Resume([Undefined(d, ub) EXCEPT !.valid = FALSE], pc,
                         "timeout")]

\* socket s becomes unconnected.  When read() is suspended in a
\* waitForReadyRead the signal is delivered inside the wait, which then
\* returns false: handleTightEncoding and handleZRLEEncoding go on from
\* there on a socket that is not connected, the wait loop of
\* handleRawEncoding never ends (pc.at = "hung").
TransportDisconnected(s) ==
    /\ sockState[s] = "Connected"
    /\ pc = Idle \/ (pc.at \in {"raw", "tight", "zrle"} /\ s = prev)
    /\ sockState' = [sockState EXCEPT ![s] = "Unconnected"]
    /\ wire' = [wire EXCEPT ![s] = <<>>]
    /\ msgLen' = [msgLen EXCEPT ![s] = 0]
    /\ last' = [op |-> "disconnected", s |-> s]
    /\ mon' = [mon EXCEPT ![s] = IF wire[s] = <<>> THEN @ ELSE MonStop(@)]
    /\ IF s = prev
       THEN \E e \in Outcomes(disconnectedWith(s)) :
               Commit(e, s) /\ lastCsc' = LastCscAfter(e.emitted)
       ELSE /\ emitted' = <<>>
            /\ UNCHANGED <<engineVars, inbuf, outbuf, lastCsc>>
    /\ UNCHANGED <<hostVars, countVars>>

\* the handler that is suspended in a waitForReadyRead goes on, the wait
\* having returned false, under every outcome ub of what is undefined
timeoutWith(s) ==
    [ub \in UndefinedOutcomes |->
        Resume(Undefined(Engine(s, inbuf[s], outbuf[s]), ub), pc, "timeout")]

\* waitForReadyRead returns false in handleTightEncoding or
\* handleZRLEEncoding, nothing having arrived in its time; in the wait loop
\* of handleRawEncoding it is called again
WaitTimeout(s) ==
    /\ s = prev
    /\ pc.at \in {"tight", "zrle"}
    /\ sockState[s] = "Connected"
    /\ last' = [op |-> "timeout", s |-> s]
    /\ \E e \in Outcomes(timeoutWith(s)) : Commit(e, s)
    /\ UNCHANGED <<hostVars, sockState, wire, msgLen, mon, lastCsc, countVars>>

\* void QVncClient::Private::pointerEvent(QMouseEvent *e) with a socket
\* attached.  ev.buttons is the set of pressed buttons among "left",
\* "middle", "right"; ev.x and ev.y are the rounded position
pointerEvent(e, ev) ==
    LET buttonMask == (IF "left" \in ev.buttons THEN 1 ELSE 0)
                        + (IF "middle" \in ev.buttons THEN 2 ELSE 0)
                        + (IF "right" \in ev.buttons THEN 4 ELSE 0)
    IN write(write(write(write(e, <<5>>), <<buttonMask>>),
                   WriteU16BE(ev.x % 65536)),
             WriteU16BE(ev.y % 65536))

\* void QVncClient::handlePointerEvent(QMouseEvent *e), called by the
\* application between two handlers
handlePointerEvent(ev) ==
    /\ pc = Idle
    /\ IF socket = NoSocket
       THEN /\ emitted' = <<>>
            /\ UNCHANGED <<engineVars, inbuf, outbuf>>
       ELSE Commit(pointerEvent([Engine(socket, inbuf[socket], outbuf[socket])
                                    EXCEPT !.valid =
                                               sockState[socket] = "Connected"],
                                ev),
                   socket)
    /\ nKeys' = nKeys + 1
    /\ last' = [op |-> "pointerEvent", s |-> socket, e |-> ev]
    /\ UNCHANGED <<hostVars, sockState, wire, msgLen, lastCsc, mon, nSent,
                   nConn, nSets>>

\* void QVncClient::handleKeyEvent(QKeyEvent *e), called by the
\* application between two handlers
handleKeyEvent(ev) ==
    /\ pc = Idle
    /\ IF socket = NoSocket
       THEN /\ emitted' = <<>>
            /\ UNCHANGED <<engineVars, inbuf, outbuf>>
       ELSE Commit(keyEvent([Engine(socket, inbuf[socket], outbuf[socket])
                                EXCEPT !.valid =
                                           sockState[socket] = "Connected"],
                            ev),
                   socket)
    /\ nKeys' = nKeys + 1
    /\ last' = [op |-> "keyEvent", s |-> socket, e |-> ev]
    /\ UNCHANGED <<hostVars, sockState, wire, msgLen, lastCsc, mon, nSent,
                   nConn, nSets>>

\* the server writes message seg on connection s
ServerSend(s, seg) ==
    /\ pc.at # "hung"
    /\ sockState[s] = "Connected"
    /\ wire[s] = <<>>
    /\ wire' = [wire EXCEPT ![s] = seg]
    /\ msgLen' = [msgLen EXCEPT ![s] = Len(seg)]
    /\ mon' = [mon EXCEPT ![s] = MonSend(@, seg)]
    /\ nSent' = nSent + 1
    /\ emitted' = <<>>
    /\ last' = [op |-> "send", s |-> s]
    /\ UNCHANGED <<hostVars, engineVars, sockState, inbuf, outbuf, lastCsc,
                   nConn, nSets, nKeys>>

\* the handler of QTcpSocket::readyRead, or the return of waitForReadyRead
\* into the handler suspended there
readyReadHandler(e) ==
    IF pc = Idle THEN read(e) ELSE Resume(e, pc, "ready")

\* the handler that the next k bytes of the wire set off on socket s, the
\* attached one, under every outcome ub of what is undefined
DeliverWith(s, k) ==
    [ub \in UndefinedOutcomes |->
        readyReadHandler(Undefined(Engine(s, inbuf[s] \o Take(wire[s], k),
                                          outbuf[s]), ub))]

\* the next k bytes of the wire reach the read buffer of socket s
Deliver(s, k) ==
    /\ sockState[s] = "Connected"
    /\ k \in 1..Len(wire[s])
    /\ pc = Idle \/ (pc.at \in {"raw", "tight", "zrle"} /\ s = prev)
    /\ wire' = [wire EXCEPT ![s] = Drop(@, k)]
    /\ msgLen' = [msgLen EXCEPT ![s] = IF k = Len(wire[s]) THEN 0 ELSE @]
    /\ mon' = [mon EXCEPT ![s].whole = @ /\ k = Len(wire[s]),
                          ![s].rx = IF mon[s].stage = "badver" THEN @ + k ELSE @,
                          ![s].parsed = @ \/ s = prev]
    /\ last' = [op |-> "deliver", s |-> s]
    /\ IF s = prev
       THEN \E e \in Outcomes(DeliverWith(s, k)) : Commit(e, s)
       ELSE /\ inbuf' = [inbuf EXCEPT ![s] = @ \o Take(wire[s], k)]
            /\ emitted' = <<>>
            /\ UNCHANGED <<engineVars, outbuf>>
    /\ UNCHANGED <<hostVars, sockState, lastCsc, countVars>>

\* the chunk sizes at which the message in flight to socket s is cut: the
\* rest of it, or up to one of the offsets CutPoints of the message
CutPoints == {1, 4, 16, 24}
Cuts(s) ==
    {k \in 1..Len(wire[s]) :
        k = Len(wire[s]) \/ (msgLen[s] - Len(wire[s])) + k \in CutPoints}

\* One transport, attached once, that connects and disconnects, and a
\* server that may send any of its handshake messages at any time
Next ==
    \/ socket = NoSocket /\ setSocket(1)
    \/ nConn < MaxConn /\ TransportConnected(1)
    \/ TransportDisconnected(1)
    \/ nSent < MaxSegs /\ \E seg \in ServerMessages : ServerSend(1, seg)
    \/ \E k \in Cuts(1) : Deliver(1, k)

Spec == Init /\ [][Next]_vars

\* Two transports that the host swaps, and a server that follows the
\* handshake
HostMessages ==
    {RFB33, SecurityWord(1), ServerInitMessage(1, 1, PixelFormat32, <<>>)}

NextHost ==
    \/ nSets < HostSets /\ \E t \in Sockets \cup {NoSocket} : setSocket(t)
    \/ nConn < HostConn /\ \E s \in Sockets : TransportConnected(s)
    \/ \E s \in Sockets : TransportDisconnected(s)
    \/ nSent < HostSegs /\ \E s \in Sockets : \E seg \in HostMessages : ServerSend(s, seg)
    \/ \E s \in Sockets : Deliver(s, Len(wire[s]))

SpecHost == Init /\ [][NextHost]_vars

\* One transport on which the server plays S5Script once, cut anywhere
NextS5 ==
    \/ socket = NoSocket /\ setSocket(1)
    \/ socket = 1 /\ TransportConnected(1)
    \/ nSent = 0 /\ ServerSend(1, S5Script)
    \/ \E k \in 1..Len(wire[1]) : Deliver(1, k)

SpecS5 == Init /\ [][NextS5]_vars

\* One transport on which the server follows the handshake, every message
\* of it arriving in one piece, and then sends updates, cut at the offsets
\* UpdateCutPoints: after the message type, after the message header, after
\* the header of the first rectangle, after a first 1 x 1 Raw rectangle
HandshakeNext(m) ==
    CASE m.stage = "start" -> {RFB33}
      [] m.stage = "ver" -> {SecurityWord(1)}
      [] m.stage = "sec1" -> {ServerInit2x2}
      [] OTHER -> {}
UpdateCutPoints == {1, 4, 16, 20}
UpdateCuts(s) ==
    {k \in 1..Len(wire[s]) :
        \/ k = Len(wire[s])
        \/ /\ mon[s].stage = "upd"
           /\ (msgLen[s] - Len(wire[s])) + k \in UpdateCutPoints}

NextUpdate ==
    \/ socket = NoSocket /\ setSocket(1)
    \/ socket = 1 /\ nConn = 0 /\ TransportConnected(1)
    \/ TransportDisconnected(1)
    \/ \E seg \in HandshakeNext(mon[1]) : ServerSend(1, seg)
    \/ /\ nSent < UpdSegs
       /\ HandshakeNext(mon[1]) = {}
       /\ mon[1].att
       /\ \E seg \in UpdateMessages \cup {BellMessage} : ServerSend(1, seg)
    \/ \E k \in UpdateCuts(1) : Deliver(1, k)

SpecUpdate == Init /\ [][NextUpdate]_vars

\* One transport that the host attaches and detaches and that connects and
\* disconnects, and a server that follows the handshake and then sends
\* updates of one Tight rectangle, every message arriving in one piece
NextTight ==
    \/ nSets < TightSets /\ socket = NoSocket /\ setSocket(1)
    \/ nSets < TightSets /\ socket = 1 /\ setSocket(NoSocket)
    \/ nConn < TightConn /\ TransportConnected(1)
    \/ TransportDisconnected(1)
    \/ \E seg \in HandshakeNext(mon[1]) : ServerSend(1, seg)
    \/ /\ nSent < TightSegs
       /\ HandshakeNext(mon[1]) = {}
       /\ socket = 1 /\ state = WaitingState
       /\ \E seg \in TightMessages \cup {BellMessage, UpdateOf(UpdateCopyRect)} :
             ServerSend(1, seg)
    \/ Deliver(1, Len(wire[1]))

SpecTight == Init /\ [][NextTight]_vars

\* One transport on which the server follows the handshake for a
\* framebuffer of 18 x 1 and then sends updates of one Hextile rectangle,
\* every message arriving in one piece, the next one sent when the client
\* has consumed all bytes of the last
HextileHandshakeNext(m) ==
    CASE m.stage = "start" -> {RFB33}
      [] m.stage = "ver" -> {SecurityWord(1)}
      [] m.stage = "sec1" -> {ServerInit18x1}
      [] OTHER -> {}

NextHextile ==
    \/ socket = NoSocket /\ setSocket(1)
    \/ socket = 1 /\ nConn = 0 /\ TransportConnected(1)
    \/ \E seg \in HextileHandshakeNext(mon[1]) : ServerSend(1, seg)
    \/ /\ nSent < HextileSegs
       /\ mon[1].stage \in {"init", "hex"}
       /\ inbuf[1] = <<>>
       /\ \E seg \in HextileMessages : ServerSend(1, seg)
    \/ Deliver(1, Len(wire[1]))

SpecHextile == Init /\ [][NextHextile]_vars

\* One transport on which the server follows the handshake for a
\* framebuffer of 2 x 2 and then sends updates of ZRLE rectangles, every
\* message arriving in one piece
NextZRLE ==
    \/ socket = NoSocket /\ setSocket(1)
    \/ socket = 1 /\ nConn = 0 /\ TransportConnected(1)
    \/ \E seg \in HandshakeNext(mon[1]) : ServerSend(1, seg)
    \/ /\ nSent < ZRLESegs
       /\ mon[1].stage \in {"init", "zrle"}
       /\ wire[1] = <<>>
       /\ \E seg \in ZRLEMessages : ServerSend(1, seg)
    \/ Deliver(1, Len(wire[1]))

SpecZRLE == Init /\ [][NextZRLE]_vars

\* One transport on which the server follows the handshake for one of the
\* framebuffers of DecodeServerInits and then sends updates of one rectangle
\* for the decoders, whole or cut at one of DecodeCutPoints, the next one
\* sent when the client has consumed all bytes of the last; a wait of a
\* decoder may time out, and the transport may disconnect, at any time
DecodeCutPoints == {16, 17, 18, 20, 24, 27, 40}
\* what arrives at once: all that is on the wire, or the first bytes of an
\* update up to one of the cut points
DecodeDeliveries ==
    {Len(wire[1])}
        \cup (IF mon[1].stage = "dec" /\ msgLen[1] = Len(wire[1])
              THEN DecodeCutPoints ELSE {})
DecodeHandshakeNext(m) ==
    CASE m.stage = "start" -> {RFB33}
      [] m.stage = "ver" -> {SecurityWord(1)}
      [] m.stage = "sec1" -> DecodeServerInits
      [] OTHER -> {}

NextDecode ==
    \/ socket = NoSocket /\ setSocket(1)
    \/ socket = 1 /\ nConn = 0 /\ TransportConnected(1)
    \/ \E seg \in DecodeHandshakeNext(mon[1]) : ServerSend(1, seg)
    \/ /\ nSent < DecodeSegs
       /\ mon[1].stage \in {"init", "dec"}
       /\ inbuf[1] = <<>>
       /\ \E seg \in DecodeMessages : ServerSend(1, seg)
    \/ \E k \in DecodeDeliveries : Deliver(1, k)
    \/ WaitTimeout(1)
    \/ TransportDisconnected(1)

SpecDecode == Init /\ [][NextDecode]_vars

\* One transport, attached and detached, connecting and disconnecting, a
\* server that starts the handshake, and an application that forwards key
\* and pointer events at any time
NextInput ==
    \/ nSets < 2 /\ socket = NoSocket /\ setSocket(1)
    \/ nSets < 2 /\ socket = 1 /\ setSocket(NoSocket)
    \/ nConn = 0 /\ TransportConnected(1)
    \/ TransportDisconnected(1)
    \/ /\ nSent < InputSegs
       /\ \E seg \in HandshakeNext(mon[1]) : ServerSend(1, seg)
    \/ Deliver(1, Len(wire[1]))
    \/ /\ nKeys < InputKeys
       /\ \E ev \in KeyEvents : handleKeyEvent(ev)
    \/ nKeys < InputKeys /\ \E ev \in PointerEvents : handlePointerEvent(ev)

SpecInput == Init /\ [][NextInput]_vars

\* ------------------------------------------------------------------------
\* Properties
\* ------------------------------------------------------------------------
\* the client-to-server messages, as the protocol lays them out
IsSetPixelFormat(m, pf) ==
    Len(m) = 20 /\ m[1] = SetPixelFormat /\ SubSeq(m, 5, 20) = pf
IsSetEncodings(m, list) ==
    /\ Len(m) = 4 + 4 * Len(list)
    /\ m[1] = SetEncodings
    /\ SubSeq(m, 3, 4) = WriteU16BE(Len(list))
    /\ \A i \in 1..Len(list) : SubSeq(m, 4 * i + 1, 4 * i + 4) = WriteU32BE(list[i])
IsUpdateRequest(m, incremental, x, y, w, h) ==
    m = <<FramebufferUpdateRequest, incremental>> \o WriteU16BE(x)
          \o WriteU16BE(y) \o WriteU16BE(w) \o WriteU16BE(h)

\* the number of version replies among the bytes o
VersionReplies(o) ==
    Cardinality({i \in 1..(Len(o) - 11) : SubSeq(o, i, i + 11) \in VersionStrings})

\* on socket s, attached since it connected, the server has sent a
\* recognised version string, security type None and a complete ServerInit,
\* and the client has received them
HappyPath(s) ==
    s = prev /\ mon[s].stage = "init" /\ wire[s] = <<>>

\* C1 (as claimed): on the happy path the client has written exactly the
\* version reply, the ClientInit byte 1, SetPixelFormat with the server's
\* format, SetEncodings [Tight, ZRLE, Hextile, Raw] and a non-incremental
\* FramebufferUpdateRequest for (0, 0, W, H), in this order, and is Ready.
C1_HandshakeOrder ==
    \A s \in Sockets : HappyPath(s) =>
        LET o == outbuf[s]
            si == mon[s].si
        IN /\ Len(o) = 63
           /\ SubSeq(o, 1, 12) = RFB33
           /\ o[13] = 1
           /\ IsSetPixelFormat(SubSeq(o, 14, 33), SubSeq(si, 5, 20))
           /\ IsSetEncodings(SubSeq(o, 34, 53), <<Tight, ZRLE, Hextile, RawEncoding>>)
           /\ IsUpdateRequest(SubSeq(o, 54, 63), 0, 0, 0,
                              ReadU16BE(SubSeq(si, 1, 2)), ReadU16BE(SubSeq(si, 3, 4)))
           /\ state = WaitingState

\* C2: protocolVersion is Unknown or V3_3 in every state, and once a
\* recognised version string has arrived on a connection the client has
\* written exactly one version reply, "RFB 003.003\n", and selected V3_3.
C2_VersionSelection ==
    /\ protocolVersion \in {ProtocolVersionUnknown, ProtocolVersion33}
    /\ \A s \in Sockets :
         /\ (s = prev /\ mon[s].stage = "ver" /\ wire[s] = <<>>) =>
               outbuf[s] = RFB33 /\ protocolVersion = ProtocolVersion33
         /\ (s = prev /\ mon[s].stage \in {"sec1", "init", "secfail"}) =>
               /\ SubSeq(outbuf[s], 1, 12) = RFB33
               /\ VersionReplies(outbuf[s]) = 1
               /\ protocolVersion = ProtocolVersion33

C2_Witness ==
    /\ prev = 1 /\ mon[1].stage = "ver" /\ mon[1].ver = RFB38 /\ wire[1] = <<>>
    /\ outbuf[1] = RFB33
    /\ protocolVersion = ProtocolVersion33

\* C3 (as claimed): after an unknown version string the client writes
\* nothing and consumes no byte beyond the twelve of that string.
C3_UnknownVersionFails ==
    \A s \in Sockets :
        (s = prev /\ mon[s].stage = "badver" /\ mon[s].rx >= 12) =>
            outbuf[s] = <<>> /\ Len(inbuf[s]) = mon[s].rx - 12

\* the bytes a handler of socket s finds in the read buffer in a step that
\* delivers bytes to s
Available(s) == inbuf[s] \o Take(wire[s], Len(wire[s]) - Len(wire'[s]))
Delivers(s) == s = prev /\ last'.op = "deliver" /\ last'.s = s

\* C4 (as claimed): in the 3.3 flow a security-type word other than 1 never
\* makes the client write ClientInit or set securityType to None.
C4_OnlyNoneProceeds ==
    [][\A s \in Sockets :
         (/\ Delivers(s)
          /\ pc = Idle
          /\ state = SecurityState
          /\ protocolVersion = ProtocolVersion33
          /\ Len(Available(s)) >= 4
          /\ Take(Available(s), 4) # SecurityWord(1))
         => securityType' # SecurityTypeNone /\ outbuf'[s] = outbuf[s]]_vars

\* C5 (as claimed): once securityType is not Unknown on a connection, bytes
\* arriving on that connection never change it.
C5_SecurityTypeSetOnce ==
    [][\A s \in Sockets :
         (Delivers(s) /\ mon[s].att /\ securityType # SecurityTypeUnknwon)
         => securityType' = securityType]_vars

\* C6 (as claimed): after security type 0 the client never writes ClientInit
\* and never becomes Ready on that connection.
C6_SecurityFailureFatal ==
    \A s \in Sockets :
        (s = prev /\ mon[s].stage = "secfail") =>
            Len(outbuf[s]) <= 12 /\ state # WaitingState

\* the whole of S5Script has reached the client
S5Done == prev = 1 /\ mon[1].stage = "s5" /\ wire[1] = <<>>

\* C7 (as claimed): after S5Script the client has written the None selection
\* and ClientInit behind the version reply and is Ready.
C7_S5EndsReady ==
    S5Done => /\ Len(outbuf[1]) >= 14
              /\ outbuf[1][13] = SecurityTypeNone
              /\ outbuf[1][14] = 1
              /\ state = WaitingState

\* the number of bytes of S5Script that have reached the client
S5Received == Len(S5Script) - Len(wire[1])

\* C7 (amended): on S5Script, however it is cut, the client has written
\* nothing and selected no version while fewer than the 12 bytes of the
\* version string have arrived; from then on it has replied "RFB 003.003\n"
\* and selected V3_3, it writes no None selection (what follows the reply
\* is the ClientInit byte and then SetPixelFormat) and never waits for a
\* SecurityResult.
C7_S5TreatedAs33 ==
    mon[1].stage = "s5" =>
        /\ S5Received < 12 =>
              outbuf[1] = <<>> /\ protocolVersion = ProtocolVersionUnknown
        /\ S5Received >= 12 =>
              /\ Len(outbuf[1]) >= 12
              /\ SubSeq(outbuf[1], 1, 12) = RFB33
              /\ VersionReplies(outbuf[1]) = 1
              /\ protocolVersion = ProtocolVersion33
        /\ Len(outbuf[1]) >= 13 => outbuf[1][13] = 1
        /\ Len(outbuf[1]) >= 14 => outbuf[1][14] = SetPixelFormat
        /\ state # SecurityResultState

C7_Witness ==
    /\ S5Done
    /\ SubSeq(outbuf[1], 1, 12) = RFB33
    /\ protocolVersion = ProtocolVersion33
    /\ securityType = SecurityTypeNone
    /\ Len(outbuf[1]) >= 14

\* C8 (as claimed): when the first bytes of a newly attached socket are
\* parsed the engine is awaiting the version and protocolVersion and
\* securityType are Unknown.
C8_AttachResets ==
    [][\A s \in Sockets :
         (Delivers(s) /\ ~mon[s].parsed)
         => /\ state = ProtocolVersionState
            /\ protocolVersion = ProtocolVersionUnknown
            /\ securityType = SecurityTypeUnknwon]_vars

\* C9: a step in which the attached socket reports connected emits exactly
\* connectionStateChanged(true), one in which it reports disconnected emits
\* exactly connectionStateChanged(false), and no other step emits the signal.
C9_ConnectionStateMirrors ==
    CscOf(emitted) =
        IF last.op = "connected" /\ last.s = prev THEN <<1>>
        ELSE IF last.op = "disconnected" /\ last.s = prev THEN <<0>>
        ELSE <<>>

C9_Witness ==
    /\ last.op = "disconnected" /\ last.s = prev
    /\ CscOf(emitted) = <<0>>
    /\ lastCsc = 0
    /\ nConn >= 1

\* C10 (as claimed): a setSocket that replaces the socket while the last
\* notification was connectionStateChanged(true) emits
\* connectionStateChanged(false), and after a true the next notification is
\* never another true.
C10_DetachSurfaced ==
    [][/\ (socket' # socket /\ lastCsc = 1) => CscOf(emitted') = <<0>>
       /\ (lastCsc = 1 /\ CscOf(emitted') # <<>>) => Head(CscOf(emitted')) = 0]_vars

\* C12 (as claimed): whenever host code observes the client after a
\* ServerInit(W, H), the handler of framebufferSizeChanged(W, H) included,
\* the image has size (W, H) and the accessors return W and H.
C12_DimensionAgreement ==
    /\ \A i \in 1..Len(emitted) :
         emitted[i].sig = "framebufferSizeChanged" =>
            /\ emitted[i].args[3] = emitted[i].args[1]
            /\ emitted[i].args[4] = emitted[i].args[2]
    /\ state = WaitingState =>
         image = [w |-> frameBufferWidth, h |-> frameBufferHeight]

\* C14 (as claimed): framebufferWidth() and framebufferHeight() are 0
\* whenever no connected socket is attached.
C14_ZeroWhenNotConnected ==
    (socket = NoSocket \/ sockState[socket] # "Connected") =>
        frameBufferWidth = 0 /\ frameBufferHeight = 0

\* on socket s, attached since it connected, the server has sent a
\* recognised version string, security type None and a ServerInit, and all
\* of it has arrived, in whatever pieces
HandshakeDelivered(s) ==
    s = prev /\ mon[s].stage = "init" /\ wire[s] = <<>>

\* C19 (as claimed): however the handshake bytes are split, once they have
\* all arrived the client is Ready with the server's (W, H) and has written
\* the bytes it writes when every message arrives in one piece.
C19_PartialReadsPreserved ==
    \A s \in Sockets : HandshakeDelivered(s) =>
        LET o == outbuf[s]
            si == mon[s].si
        IN /\ state = WaitingState
           /\ frameBufferWidth = ReadU16BE(SubSeq(si, 1, 2))
           /\ frameBufferHeight = ReadU16BE(SubSeq(si, 3, 4))
           /\ o = RFB33 \o <<1>>
                   \o <<SetPixelFormat, 32, 32, 32>> \o SubSeq(si, 5, 20)
                   \o <<SetEncodings, 32, 0, 4>> \o WriteU32BE(Tight)
                   \o WriteU32BE(ZRLE) \o WriteU32BE(Hextile)
                   \o WriteU32BE(RawEncoding)
                   \o <<FramebufferUpdateRequest, 0>> \o <<0, 0, 0, 0>>
                   \o SubSeq(si, 1, 4)

\* the arguments of the imageChanged signals among sigs, one entry for each
\* emission
RECURSIVE ImageChangedOf(_)
ImageChangedOf(sigs) ==
    IF sigs = <<>> THEN <<>>
    ELSE IF Head(sigs).sig = "imageChanged"
         THEN [i \in 1..Head(sigs).times |-> Head(sigs).args]
                \o ImageChangedOf(Tail(sigs))
         ELSE ImageChangedOf(Tail(sigs))

RectArgs(r) == <<r.x, r.y, r.w, r.h>>
IsRectOf(args, rects) == \E i \in 1..Len(rects) : RectArgs(rects[i]) = args
IndexIn(args, rects) == CHOOSE i \in 1..Len(rects) : RectArgs(rects[i]) = args

\* the bytes the client has written when the handshake of SpecUpdate is over
Handshake2x2 ==
    RFB33 \o <<1>> \o <<SetPixelFormat, 32, 32, 32>> \o PixelFormat32
      \o <<SetEncodings, 32, 0, 4>> \o WriteU32BE(Tight) \o WriteU32BE(ZRLE)
      \o WriteU32BE(Hextile) \o WriteU32BE(RawEncoding)
      \o <<FramebufferUpdateRequest, 0, 0, 0, 0, 0, 0, 2, 0, 2>>

\* the first update after the handshake has been sent on socket 1
UpdateSent == prev = 1 /\ mon[1].stage = "upd"
\* ... and the step just taken delivered it in one piece
UpdateWhole ==
    UpdateSent /\ mon[1].whole /\ wire[1] = <<>> /\ last.op = "deliver"

\* C13 (as claimed): every imageChanged rectangle lies inside the current
\* framebuffer.
C13_DirtyInsideFramebuffer ==
    \A i \in 1..Len(emitted) :
        emitted[i].sig = "imageChanged" =>
            /\ emitted[i].args[1] + emitted[i].args[3] <= frameBufferWidth
            /\ emitted[i].args[2] + emitted[i].args[4] <= frameBufferHeight

\* C15: the imageChanged notifications of an update leave in the order of
\* its rectangles on the wire, also when the handler was suspended in a Raw
\* rectangle and goes on in a later step, and the bytes of the server are
\* consumed from the front of the read buffer.
C15_OrderLaw ==
    [][(Delivers(1) /\ mon'[1].stage = "upd") =>
         LET rects == mon'[1].upd
             seen == SelectSeq(ImageChangedOf(emitted'),
                               LAMBDA a : IsRectOf(a, rects))
         IN /\ \A i, j \in 1..Len(seen) :
                 i < j => IndexIn(seen[i], rects) <= IndexIn(seen[j], rects)
            /\ pc.at = "raw" =>
                 \A i \in 1..Len(seen) : IndexIn(seen[i], rects) >= pc.i + 1
            /\ \E n \in 0..Len(Available(1)) :
                 inbuf'[1] = Drop(Available(1), n)]_vars

C15_Witness ==
    /\ UpdateWhole
    /\ mon[1].upd = UpdateTwo
    /\ Len(ImageChangedOf(emitted)) >= 2
    /\ ImageChangedOf(emitted)[1] = <<0, 0, 1, 1>>
    /\ ImageChangedOf(emitted)[Len(ImageChangedOf(emitted))] = <<1, 1, 1, 1>>

\* C16 (as claimed): an update of N rectangles of supported encodings,
\* delivered in one piece, emits exactly N imageChanged, the i-th with the
\* box of rectangle i.
C16_OneNotificationPerRectangle ==
    (UpdateWhole /\ mon[1].upd \in {UpdateTall, UpdateTwo}) =>
        ImageChangedOf(emitted) =
            [i \in 1..Len(mon[1].upd) |-> RectArgs(mon[1].upd[i])]

\* C17 (as claimed): while bytes of the last rectangle of the update are still
\* to arrive the client has written no FramebufferUpdateRequest for it.
C17_RequestAfterLastRectangle ==
    (UpdateSent /\ wire[1] # <<>>) => outbuf[1] = Handshake2x2

\* C18 (as claimed): once all bytes of the update have arrived, in whatever
\* pieces, the client has written an incremental FramebufferUpdateRequest
\* for (0, 0, W, H).
C18_UpdateLoopNeverStalls ==
    (UpdateSent /\ wire[1] = <<>> /\ mon[1].upd \in {UpdateTall, UpdateTwo}) =>
        /\ Len(outbuf[1]) >= Len(Handshake2x2) + 10
        /\ Drop(outbuf[1], Len(outbuf[1]) - 10) =
              <<FramebufferUpdateRequest, 1, 0, 0, 0, 0, 0, 2, 0, 2>>

\* C20 (as claimed): after a rectangle with an unknown encoding tag the
\* client writes a non-incremental request for the whole framebuffer and
\* parses no further rectangle header of that update.
C20_UnknownEncodingResyncs ==
    (UpdateWhole /\ mon[1].upd = UpdateCopyRect) =>
        /\ outbuf[1] = Handshake2x2
              \o <<FramebufferUpdateRequest, 0, 0, 0, 0, 0, 0, 2, 0, 2>>
        /\ Len(inbuf[1]) \in {0, Len(UpdateOf(UpdateCopyRect)) - 16}

\* C11 (as claimed): when no transport is attached, when the attached
\* transport is not connected, and when it has just connected, none of the
\* four zlib streams of Tight is active.
C11_ZlibContextsEndWithConnection ==
    (\/ socket = NoSocket
     \/ sockState[socket] # "Connected"
     \/ (last.op = "connected" /\ last.s = prev)) =>
        \A k \in StreamIds : ~tightData[k].active

\* C27: whenever the engine is in WaitingState, the only state in which
\* read() parses a FramebufferUpdate and calls a rectangle decoder, the
\* protocol version is not ProtocolVersionUnknown; this holds across
\* connects, disconnects, reconnects and socket swaps.
C27_NoDecodingWhileVersionUnknown ==
    state = WaitingState => protocolVersion # ProtocolVersionUnknown

C27_Witness ==
    /\ state = WaitingState
    /\ protocolVersion = ProtocolVersion33
    /\ nConn = 2
    /\ nSets = 2

\* the update request of incremental for the whole 2 x 2 framebuffer
Request2x2(incremental) ==
    <<FramebufferUpdateRequest, incremental, 0, 0, 0, 0, 0, 2, 0, 2>>
EndsWith(o, m) == Len(o) >= Len(m) /\ Drop(o, Len(o) - Len(m)) = m

\* the step just taken delivered, in one piece, a Tight update of the
\* rectangles rects
TightDelivered(rects) ==
    /\ prev = 1 /\ last.op = "deliver"
    /\ mon[1].stage = "tight" /\ mon[1].upd = rects /\ wire[1] = <<>>

\* C21 (as claimed): when the decoding of a rectangle fails, here a Tight
\* JPEG rectangle whose data is no JPEG image, the client stays in
\* WaitingState and the last thing it has written is a non-incremental
\* FramebufferUpdateRequest for the whole framebuffer.
C21_DecoderErrorRecovery ==
    TightDelivered(TightJpeg) =>
        state = WaitingState /\ EndsWith(outbuf[1], Request2x2(0))

\* C22 (as claimed): when the first message after the handshake has a type
\* other than FramebufferUpdate, the client has written a request for a full
\* refresh once the message has arrived.
C22_UnknownMessageRefresh ==
    (prev = 1 /\ mon[1].stage = "bell" /\ wire[1] = <<>>) =>
        outbuf[1] = Handshake2x2 \o Request2x2(0)

\* C25 (as claimed): a control byte with bit 4 set discards the history of
\* stream 0 before the payload is inflated, so once the rectangle has been
\* read and notified stream 0 is what a fresh inflater is after the payload.
C25_TightResetMask ==
    (TightDelivered(TightBit4) /\ inbuf[1] = <<>> /\ emitted # <<>>) =>
        tightData[0] = [active |-> TRUE,
                        z |-> inflate(inflateInit, ChunkFirst, 4).z]

\* C28: between two connected events of the attached transport the
\* handshake state never moves back, and once it is WaitingState it stays
\* WaitingState, whatever the server sends: messages of unknown type,
\* rectangles of unknown encoding and rectangles whose decoding fails
\* included.
C28_HandshakeStateMonotone ==
    [][~(last'.op = "connected" /\ last'.s = prev) =>
          /\ state' >= state
          /\ state = WaitingState => state' = WaitingState]_vars

C28_Witness ==
    /\ state = WaitingState
    /\ last.op = "deliver" /\ last.s = prev
    /\ mon[1].stage = "off"
    /\ Len(outbuf[1]) > Len(Handshake2x2)
    /\ nConn = 2

\* C30 (as claimed): a Tight rectangle with control byte 8 (Fill) consumes
\* the control byte and one pixel and touches no zlib stream.
C30_TightFill ==
    (TightDelivered(TightFill) /\ mon[1].whole) =>
        inbuf[1] = <<>> /\ tightData = TightDataInit

\* the step just taken delivered, in one piece, a Hextile update of the
\* rectangles rects
HextileDelivered(rects) ==
    /\ prev = 1 /\ last.op = "deliver"
    /\ mon[1].stage = "hex" /\ mon[1].upd = rects /\ wire[1] = <<>>

\* C23 (as claimed): in a rectangle whose first tile specifies background
\* green and foreground red and whose second tile has one uncoloured
\* subrectangle at (0, 0) and specifies no colour, the first tile is green,
\* the subrectangle red and the rest of the second tile green, whether or
\* not the first tile has a subrectangle of its own.
C23_HextileColourPersistence ==
    /\ HextileDelivered(HexBoth) =>
          /\ pixels[<<0, 0>>] = <<255, 0, 0>>
          /\ \A x \in 1..15 : pixels[<<x, 0>>] = <<0, 255, 0>>
          /\ pixels[<<16, 0>>] = <<255, 0, 0>>
          /\ pixels[<<17, 0>>] = <<0, 255, 0>>
    /\ HextileDelivered(HexFgLater) =>
          /\ \A x \in 0..15 : pixels[<<x, 0>>] = <<0, 255, 0>>
          /\ pixels[<<16, 0>>] = <<255, 0, 0>>
          /\ pixels[<<17, 0>>] = <<0, 255, 0>>

\* C29 (as claimed): a tile with ForegroundSpecified and without AnySubrects
\* consumes its foreground pixel, so the tile after it is decoded from its
\* own subencoding byte: it gets its background and no byte of the
\* rectangle is left in the read buffer.
C29_HextileForegroundConsumed ==
    HextileDelivered(HexFgOnly) =>
        /\ inbuf[1] = <<>>
        /\ pixels[<<16, 0>>] = <<0, 255, 0>>
        /\ pixels[<<17, 0>>] = <<0, 255, 0>>

\* the step just taken delivered, in one piece, the last of the ZRLE
\* updates that together carried the rectangles rects
ZRLEDelivered(rects) ==
    /\ prev = 1 /\ last.op = "deliver"
    /\ mon[1].stage = "zrle" /\ mon[1].upd = rects /\ wire[1] = <<>>

\* C24 (as claimed): when the first ZRLE rectangles of a connection are the
\* two pieces of one continuous zlib stream, in one FramebufferUpdate or in
\* two, the image gets the pixels that inflating the concatenated stream
\* gives: red at (0, 0) from the first piece, green at (1, 0) from the
\* second.
C24_ZRLEContinuity ==
    ZRLEDelivered(ZRLEFirst \o ZRLENext) =>
        /\ qUncompress(<<0, 0, 0, 10>> \o ZRLEChunkFirst \o ZRLEChunkNext
                         \o <<1, 0, 0, 255, 255>> \o <<10, 15, 2, 1>>)
             = <<1>> \o Red \o <<1>> \o Green
        /\ pixels = (<<0, 0>> :> <<255, 0, 0>>) @@ (<<1, 0>> :> <<0, 255, 0>>)

\* the code point of the first character of text, given as UTF-16 code
\* units
CodePoint(text) ==
    IF Len(text) >= 2 /\ text[1] \in 55296..56319 /\ text[2] \in 56320..57343
    THEN 65536 + (text[1] - 55296) * 1024 + (text[2] - 56320)
    ELSE text[1]

\* C26 (as claimed): a key event writes either nothing or one KeyEvent
\* message of 8 bytes: type 4, down flag 1 for a press and 0 for a release,
\* two bytes of padding, and the keysym, big-endian, which is the keyMap
\* value of a mapped key and otherwise the code point of the first
\* character of the text; for an unmapped key without text nothing is
\* written.
C26_KeyEventKeysym ==
    [][last'.op = "keyEvent" /\ socket # NoSocket =>
          LET ev == last'.e
              written == Drop(outbuf'[socket], Len(outbuf[socket]))
              mapped == ev.key \in DOMAIN keyMap
          IN \/ written = <<>>
             \/ /\ mapped \/ ev.text # <<>>
                /\ Len(written) = 8
                /\ written[1] = 4
                /\ written[2] = IF ev.press THEN 1 ELSE 0
                /\ SubSeq(written, 5, 8)
                     = WriteU32BE(IF mapped THEN keyMap[ev.key]
                                  ELSE CodePoint(ev.text))]_vars

\* C39 (as claimed): after the handshake and one FramebufferUpdate message
\* the client has written at most two FramebufferUpdateRequests: the one of
\* the handshake and one for the update.
C39_RequestsDoNotPileUp ==
    (UpdateSent /\ state = WaitingState) =>
        \/ outbuf[1] = Handshake2x2
        \/ \E incremental \in {0, 1} :
              outbuf[1] = Handshake2x2 \o Request2x2(incremental)

\* C38 (as claimed): a key or pointer event writes nothing while the
\* handshake state is not WaitingState, and nothing while the socket is not
\* connected.
C38_InputAfterHandshakeOnly ==
    [][(last'.op \in {"keyEvent", "pointerEvent"} /\ socket # NoSocket
          /\ (state # WaitingState \/ sockState[socket] # "Connected"))
         => outbuf' = outbuf]_vars

\* C34 (as claimed): when the transport has closed, the Raw decoder is not
\* waiting for the rest of a rectangle: it has returned.
C34_StalledDecodeTerminates ==
    (prev = 1 /\ sockState[1] = "Unconnected") => pc = Idle

\* the step just taken delivered, in one piece, the first update after a
\* handshake that ended with the ServerInit si, and the update carried the
\* rectangles rects
DecodeDelivered(si, rects) ==
    /\ prev = 1 /\ last.op = "deliver" /\ wire[1] = <<>> /\ nSent = 4
    /\ mon[1].stage = "dec" /\ mon[1].si = si /\ mon[1].upd = rects
    /\ mon[1].whole

\* C31 (as claimed): the length of a Tight basic payload is in compact form
\* whatever the control byte: behind control byte 0 the length bytes 83 01
\* announce 131 bytes, so the whole rectangle is consumed and its one pixel,
\* red, is written.
C31_TightCompactLength ==
    DecodeDelivered(ServerInit2x2, TightLong) =>
        inbuf[1] = <<>> /\ pixels = (<<0, 0>> :> <<255, 0, 0>>)

\* C32 (as claimed): a Tight basic rectangle of two pixels whose payload
\* inflates to one pixel only is discarded: no pixel is written.
C32_TightInflatedSize ==
    DecodeDelivered(ServerInit2x2, TightShort) => pixels = <<>>

\* C33 (as claimed): a Raw pixel is assembled as the pixel format's
\* bigEndianFlag says: the bytes 00 FF 00 00 are the word 0x0000FF00, green,
\* when the flag is 0 and the word 0x00FF0000, red, when the flag is 1.
C33_RawByteOrder ==
    /\ DecodeDelivered(ServerInit2x2, RawWord) =>
          pixels = (<<0, 0>> :> <<0, 255, 0>>)
    /\ DecodeDelivered(ServerInit2x2BE, RawWord) =>
          pixels = (<<0, 0>> :> <<255, 0, 0>>)

\* C35 (as claimed): a ZRLE rectangle whose second tile has the reserved
\* subencoding 17, which the decoder does not implement, is aborted and leaves every pixel as it
\* was before the rectangle began, the pixels of its first tile included.
C35_NoPartialRectangle ==
    DecodeDelivered(ServerInit1x65, ZRLEPartial) => pixels = <<>>

\* C36 (as claimed): in a ZRLE tile the subencoding code 2 is itself the
\* palette size: two palette pixels, red and green, follow the code at once,
\* then the packed indices, and the index 1 of a tile of 1 x 1 makes its
\* pixel green.
C36_ZRLEPackedPalette ==
    DecodeDelivered(ServerInit2x2, ZRLEPacked) =>
        pixels = (<<0, 0>> :> <<0, 255, 0>>)

\* C37 (as claimed): decoding a rectangle changes no pixel outside it: a
\* Tight JPEG rectangle (0, 0, 1, 1) whose image is 2 x 2 changes at most
\* the pixel (0, 0).
C37_RectangleFrame ==
    DecodeDelivered(ServerInit2x2, TightJpegLarge) =>
        DOMAIN pixels \subseteq {<<0, 0>>}

====
